---- MODULE Spec2Model ----
(***************************************************************************)
(* Model of the transactional deployment engine of SUSE/elemental:         *)
(*   - pkg/cleanstack: the LIFO of deferred clean-up jobs,                 *)
(*   - pkg/transaction: the snapper upgrade helper,                        *)
(*   - pkg/upgrade: Upgrader.Upgrade,                                      *)
(*   - pkg/bootloader: Grub.Install / updateBootEntries.                   *)
(*                                                                         *)
(* A Go error is modelled as the sequence of its causes in message order:  *)
(* nil is the empty sequence, errors.Join concatenates and drops nil, and  *)
(* fmt.Errorf("...: %w", err) keeps the causes of err.                     *)
(***************************************************************************)
EXTENDS Integers, Sequences, FiniteSets, TLC

VARIABLES
    \* ---- cleanstack.CleanStack
    jobs,       \* CleanStack.jobs: the slice, stale entries beyond count included
    count,      \* CleanStack.count
    \* ---- observation of the clean stack's callers
    nextTask,   \* number of tasks created so far (gives every task its identity)
    csOp,       \* the last operation performed on the stack
    csAt,       \* the live stack (jobs[:count]) when the last Cleanup was entered
    csIn,       \* the error the last Cleanup was called with
    csRet,      \* the error the last Cleanup returned
    visited,    \* tasks popped by the last Cleanup, in pop order
    ran,        \* tasks run by the last Cleanup, in run order
    cleanups,   \* number of Cleanup calls so far
    \* ---- transaction.snapperContext and the Transaction it works on
    ctxCancelled,   \* sc.ctx is done
    trans,          \* Transaction{ID, status}
    effects,        \* what the helper methods did to the system, in order
    \* ---- observation of the upgrade helper's callers
    last,       \* the last helper call: method, status and ctx at entry, result
    hCalls,     \* number of helper calls so far
    \* ---- the snapshots the transaction engine manages
    nextID,         \* the ID the snapshot tool hands out next
    snapshots,      \* IDs of the snapshots that exist
    defaultSnap,    \* ID of the default snapshot, 0 when there is none
    \* ---- the EFI system partition
    esp,        \* grubenv (exists, entries) and loader/entries/<id>
    \* ---- upgrade.Upgrader.Upgrade
    pc,         \* the step Upgrade is at
    upErr,      \* its named result err
    calls,      \* the calls this run made, in order, and whether each succeeded
    d,          \* the deployment it was called with
    upRuns,     \* number of Upgrade calls so far
    \* ---- bootloader.Grub installing on one ESP, call after call
    installed,  \* snapshot IDs of the Install calls that returned nil, in order
    grubCalls,  \* number of Install calls so far
    grubLast,   \* the last Install call: its deployment, the ESP before it,
                \* the error returned, the steps it went through
    \* ---- chroot.Chroot
    chroot,     \* the Chroot: path, extraMounts, activeMounts
    mounted,    \* the mount points the mounter holds mounted, in mount order
    chLast,     \* the last call on the Chroot: its name, the activeMounts at
                \* entry, the error returned, the system calls it made in order
    chOps,      \* number of calls on the Chroot so far
    \* ---- deployment.Merge and the slice merges under it
    mgDst,      \* the destination of the merge
    mgSrc,      \* the source of the merge
    mgOut,      \* the outcome of the merge, "none" before it ran
    \* ---- install.Installer.Install
    inst,       \* the last Install call: its deployment, the error returned,
                \* the calls it made on the system in order
    \* ---- the upgrade helper working on the volumes of a deployment
    scParts,    \* sc.partitions
    fstabFile,  \* <trans.Path>/etc/fstab: its lines, or that it does not exist
    volLast,    \* the last helper call: method, transaction ID, error, what
                \* it handed to the system
    volCalls    \* number of such calls so far

csVars == <<jobs, count, nextTask, csOp, csAt, csIn, csRet, visited, ran, cleanups>>

txVars == <<ctxCancelled, trans, effects>>

hVars == <<last, hCalls>>

snapVars == <<nextID, snapshots, defaultSnap>>

upVars == <<pc, upErr, calls, d, upRuns>>

grubVars == <<installed, grubCalls, grubLast>>

chVars == <<chroot, mounted, chLast, chOps>>

mgVars == <<mgDst, mgSrc, mgOut>>

instVars == <<inst>>

volVars == <<scParts, fstabFile, volLast, volCalls>>

\* The packages that are also exercised on their own.
pkgVars == <<grubVars, chVars, mgVars, instVars, volVars>>

vars == <<csVars, txVars, hVars, snapVars, esp, upVars, pkgVars>>

-----------------------------------------------------------------------------
(* Bounds *)

MaxJobs == 3        \* tasks pushed in one behaviour of the clean stack
MaxCleanups == 2    \* Cleanup calls in one behaviour of the clean stack
MaxHelperCalls == 2 \* direct calls of upgrade helper methods in one behaviour
MaxTransID == 2     \* transaction IDs handed to the upgrade helper
MaxRuns == 2        \* Upgrade calls in one behaviour

-----------------------------------------------------------------------------
(* Errors *)

Nil == <<>>

Err(kind, n) == <<[kind |-> kind, n |-> n]>>

\* errors.Join(a, b): nil operands are dropped, the messages keep their order.
Join(a, b) == a \o b

Causes(e) == {e[i] : i \in 1..Len(e)}

Contains(e, cause) == cause[1] \in Causes(e)

-----------------------------------------------------------------------------
(* pkg/cleanstack *)

errorOnly == 0
successOnly == 1
always == 2

JobTypes == {errorOnly, successOnly, always}

\* Job{task, jobType}; a task is a closure: its identity and what it returns.
Job(id, jobType, fails) == [task |-> id, jobType |-> jobType, fails |-> fails]

\* Job.Run
Run(job) == IF job.fails THEN Err("task", job.task) ELSE Nil

\* append(clean.jobs[:clean.count], job); clean.count++
PushJob(js, cnt, job) ==
    [jobs |-> Append(SubSeq(js, 1, cnt), job), count |-> cnt + 1]

\* Pop, for count > 0: clean.count--; return clean.jobs[clean.count]
PopJobFirst(js, cnt) == [job |-> js[1], count |-> cnt - 1]

PopJob(js, cnt) == [job |-> js[cnt], count |-> cnt - 1]

runCleanJobTaskFirst(job, errs) == Join(Run(job), errs)

runCleanJob(job, errs) ==
    LET err == Run(job)
    IN IF err # Nil THEN Join(errs, err) ELSE errs

\* The switch of Cleanup: does a job of this type run, given the error so far.
ShouldRunAll(jobType, err) == TRUE

ShouldRun(jobType, err) ==
    CASE jobType = successOnly -> err = Nil
      [] jobType = errorOnly -> err # Nil
      [] OTHER -> TRUE

\* The loop of Cleanup: for clean.count > 0 { job := clean.Pop(); switch ... }
RECURSIVE CleanupLoop(_, _, _, _, _)
CleanupLoop(js, cnt, err, vis, log) ==
    IF cnt <= 0
    THEN [err |-> err, count |-> cnt, visited |-> vis, ran |-> log]
    ELSE LET p == PopJob(js, cnt)
             go == ShouldRun(p.job.jobType, err)
         IN CleanupLoop(js, p.count,
                        IF go THEN runCleanJob(p.job, err) ELSE err,
                        Append(vis, p.job.task),
                        IF go THEN Append(log, p.job.task) ELSE log)

CleanupRun(js, cnt, err) == CleanupLoop(js, cnt, err, <<>>, <<>>)

\* NewCleanStack: an empty stack that nothing has been done to yet.
NewCleanStack ==
    /\ jobs = <<>>
    /\ count = 0
    /\ nextTask = 0
    /\ csOp = "New"
    /\ csAt = <<>>
    /\ csIn = Nil
    /\ csRet = Nil
    /\ visited = <<>>
    /\ ran = <<>>
    /\ cleanups = 0

-----------------------------------------------------------------------------
(* pkg/transaction: the snapper upgrade helper *)

TransStatus == {"init", "started", "committed", "rolledback"}

started == "started"

Transaction(id, status) == [ID |-> id, status |-> status]

\* checkCancelled(err), deferred by every public method: the error of a done
\* context is part of what the method returns.
checkCancelled(cancelled, e) == IF cancelled THEN Join(e, Err("cancelled", 0)) ELSE e

\* The steps of a method body: the external calls in their order, each of which
\* may return an error. failAt = 0: none fails; failAt = k: the k-th one fails.
\* A call that fails has no effect; the calls before it have theirs.
Done(fx) == [err |-> Nil, fx |-> fx]

Failed(cause, fx) == [err |-> Err(cause, 0), fx |-> fx]

Deferred(cancelled, body) == [err |-> checkCancelled(cancelled, body.err), fx |-> body.fx]

\* SynchedUnpack is handed sc.ctx: with a done context it returns an error.
SyncImageContentBody(cancelled, failAt) ==
    IF failAt = 1 THEN Failed("NewUnpacker", <<>>)
    ELSE IF failAt = 2 \/ cancelled THEN Failed("SynchedUnpack", <<>>)
    ELSE Done(<<"SynchedUnpack", "SetDigest">>)

SyncImageContentUnchecked(status, cancelled, failAt) ==
    Deferred(cancelled, SyncImageContentBody(cancelled, failAt))

SyncImageContent(status, cancelled, failAt) ==
    Deferred(cancelled,
             IF status # started THEN Failed("tx_state", <<>>)
             ELSE SyncImageContentBody(cancelled, failAt))

\* configureSnapper
configureSnapper(failAt) ==
    IF failAt = 1 THEN Failed("ConfigureRoot", <<>>)
    ELSE IF failAt = 2 THEN Failed("MkdirAll", <<"ConfigureRoot">>)
    ELSE IF failAt = 3 THEN Failed("Mount", <<"ConfigureRoot", "MkdirAll">>)
    ELSE IF failAt = 4
         THEN Failed("configureRWVolumes",
                     <<"ConfigureRoot", "MkdirAll", "MountBind", "PushUnmount">>)
    ELSE Done(<<"ConfigureRoot", "MkdirAll", "MountBind", "PushUnmount",
                "configureRWVolumes">>)

MergeBody(failAt) ==
    LET c == configureSnapper(failAt)
    IN IF c.err # Nil THEN c
       ELSE IF failAt = 5 THEN Failed("merge", c.fx)
       ELSE Done(Append(c.fx, "merge"))

Merge(status, cancelled, failAt) ==
    Deferred(cancelled,
             IF status # started THEN Failed("tx_state", <<>>)
             ELSE MergeBody(failAt))

\* fstabExists: vfs.Exists(<trans.Path>/etc/fstab)
UpdateFstabBody(fstabExists, failAt) ==
    IF fstabExists
    THEN IF failAt = 1 THEN Failed("UpdateFstab", <<>>) ELSE Done(<<"UpdateFstab">>)
    ELSE IF failAt = 1 THEN Failed("WriteFstab", <<>>) ELSE Done(<<"WriteFstab">>)

UpdateFstab(status, cancelled, fstabExists, failAt) ==
    Deferred(cancelled,
             IF status # started THEN Failed("tx_state", <<>>)
             ELSE UpdateFstabBody(fstabExists, failAt))

LockBody(failAt) ==
    IF failAt = 1 THEN Failed("SetPermissions", <<>>) ELSE Done(<<"SetPermissions">>)

Lock(status, cancelled, failAt) ==
    Deferred(cancelled,
             IF status # started THEN Failed("tx_state", <<>>)
             ELSE LockBody(failAt))

-----------------------------------------------------------------------------
(* pkg/bootloader: Grub *)

DefaultBootID == 0

FreshESP == [exists |-> FALSE, entries |-> <<>>, loader |-> {}]

RECURSIVE Reverse(_)
Reverse(s) == IF s = <<>> THEN <<>> ELSE Append(Reverse(Tail(s)), Head(s))

\* "grub2-editenv list": the fields after the prefix "entries=active".
ReadEntries(e) ==
    IF e.exists /\ e.entries # <<>> /\ Head(e.entries) = DefaultBootID
    THEN Tail(e.entries)
    ELSE <<>>

\* "grub2-editenv <ESP>/loader/entries/<id> set ...", run for transaction by.
WriteLoaderEntry(loader, id, by) ==
    {x \in loader : x.id # id} \cup {[id |-> id, by |-> by]}

\* The loop "for _, entry := range newEntries" of updateBootEntries, from the
\* i-th entry on; the failNth set command returns an error.
RECURSIVE createBootEntries(_, _, _, _, _, _)
createBootEntries(loader, activeEntries, newEntries, i, by, failNth) ==
    IF i > Len(newEntries)
    THEN [err |-> Nil, loader |-> loader, activeEntries |-> activeEntries]
    ELSE IF failNth = i
    THEN [err |-> Err("grub2-editenv set", i), loader |-> loader,
          activeEntries |-> activeEntries]
    ELSE createBootEntries(WriteLoaderEntry(loader, newEntries[i], by),
                           IF newEntries[i] = DefaultBootID
                           THEN activeEntries
                           ELSE Append(activeEntries, newEntries[i]),
                           newEntries, i + 1, by, failNth)

\* failAt: 1 the list command, 2 MkdirAll, 3.. the set command of an entry,
\* Len(newEntries) + 3 the set command of grubenv.
updateBootEntries(e, newEntries, by, failAt) ==
    IF e.exists /\ failAt = 1 THEN [err |-> Err("grub2-editenv list", 0), esp |-> e]
    ELSE IF failAt = 2 THEN [err |-> Err("MkdirAll", 0), esp |-> e]
    ELSE LET c == createBootEntries(e.loader, ReadEntries(e), newEntries, 1, by,
                                    failAt - 2)
             written == [e EXCEPT !.loader = c.loader]
         IN IF c.err # Nil THEN [err |-> c.err, esp |-> written]
            ELSE IF failAt = Len(newEntries) + 3
            THEN [err |-> Err("grub2-editenv set", 0), esp |-> written]
            ELSE [err |-> Nil,
                  esp |-> [written EXCEPT
                             !.exists = TRUE,
                             !.entries = <<DefaultBootID>> \o Reverse(c.activeEntries)]]

GrubInstallWithoutESP(e, snapshotID, hasESP, failAt) ==
    IF failAt = 1
    THEN [err |-> Err("installElementalEFI", 0), esp |-> e,
          calls |-> <<"installElementalEFI">>]
    ELSE LET u == updateBootEntries(e, <<DefaultBootID, snapshotID>>, snapshotID,
                                    0)
         IN [err |-> u.err, esp |-> u.esp,
             calls |-> <<"installElementalEFI", "installGrub",
                         "installKernelInitrd", "updateBootEntries">>]

\* Grub.Install; installKernelInitrd returns the entries active and <snapshotID>.
\* failAt: 1 installElementalEFI, 2 installGrub, 3 installKernelInitrd,
\* 4.. inside updateBootEntries. calls: the steps Install went into, in order.
GrubInstall(e, snapshotID, hasESP, failAt) ==
    IF ~hasESP THEN [err |-> Err("ESP not found", 0), esp |-> e, calls |-> <<>>]
    ELSE IF failAt = 1
    THEN [err |-> Err("installElementalEFI", 0), esp |-> e,
          calls |-> <<"installElementalEFI">>]
    ELSE IF failAt = 2
    THEN [err |-> Err("installGrub", 0), esp |-> e,
          calls |-> <<"installElementalEFI", "installGrub">>]
    ELSE IF failAt = 3
    THEN [err |-> Err("installKernelInitrd", 0), esp |-> e,
          calls |-> <<"installElementalEFI", "installGrub",
                      "installKernelInitrd">>]
    ELSE LET u == updateBootEntries(e, <<DefaultBootID, snapshotID>>, snapshotID,
                                    failAt - 3)
         IN [err |-> u.err, esp |-> u.esp,
             calls |-> <<"installElementalEFI", "installGrub",
                         "installKernelInitrd", "updateBootEntries">>]

-----------------------------------------------------------------------------
(* pkg/chroot: Chroot *)

\* A path is the sequence of its components, as split at "/": "/whatever/" is
\* <<"", "whatever", "">>, the relative "whatever" is <<"whatever">>.
IsAbs(path) == path # <<>> /\ path[1] = ""

\* strings.TrimSuffix(path, "/")
TrimSuffix(path) ==
    IF Len(path) > 1 /\ path[Len(path)] = ""
    THEN SubSeq(path, 1, Len(path) - 1)
    ELSE path

\* filepath.Clean(filepath.Join(a, b)) of paths without "." and ".."
CleanJoin(a, b) ==
    TrimSuffix(a) \o SelectSeq(b, LAMBDA comp : comp # "")

\* os.Getwd() of the process
currentPath == <<"", "cwd">>

\* fmt.Sprintf("%s%s", strings.TrimSuffix(c.path, "/"), mnt)
mountPoint(path, mnt) == TrimSuffix(path) \o Tail(mnt)

defaultMounts ==
    << <<"", "dev">>, <<"", "dev", "pts">>, <<"", "proc">>, <<"", "sys">> >>

NewChroot(path) ==
    [path |-> path, extraMounts |-> [k \in {} |-> <<>>], activeMounts |-> <<>>]

SetExtraMounts(c, extraMounts) == [c EXCEPT !.extraMounts = extraMounts]

\* A call the Chroot makes on the system, and whether it succeeded.
Ev(call, arg, ok) == [call |-> call, arg |-> arg, ok |-> ok]

\* The outside paths extra mounts are keyed by, in the order of sort.Strings.
KeyOrder == << <<"", "a">>, <<"", "b">> >>

\* keys := the keys of c.extraMounts; sort.Strings(keys)
sortedKeys(extraMounts) ==
    SelectSeq(KeyOrder, LAMBDA k : k \in DOMAIN extraMounts)

\* The binds of Prepare in mounting order: the default mounts, then the extra
\* mounts by sorted key.
bindMounts(c) ==
    [i \in 1..Len(defaultMounts) |->
        [source |-> defaultMounts[i], mnt |-> defaultMounts[i]]]
    \o LET keys == sortedKeys(c.extraMounts)
       IN [i \in 1..Len(keys) |->
             [source |-> keys[i], mnt |-> c.extraMounts[keys[i]]]]

\* The two mounting loops of Prepare from the i-th bind on. Step 2i-1 is the
\* MkdirAll of the i-th mount point and step 2i its Mount; step failAt fails.
RECURSIVE mountAll(_, _, _, _, _, _)
mountAll(path, binds, i, active, log, failAt) ==
    IF i > Len(binds)
    THEN [err |-> Nil, activeMounts |-> active, log |-> log]
    ELSE LET mp == mountPoint(path, binds[i].mnt)
         IN IF failAt = 2 * i - 1
            THEN [err |-> Err("MkdirAll", i), activeMounts |-> active,
                  log |-> Append(log, Ev("MkdirAll", mp, FALSE))]
            ELSE IF failAt = 2 * i
            THEN [err |-> Err("Mount", i), activeMounts |-> active,
                  log |-> log \o <<Ev("MkdirAll", mp, TRUE), Ev("Mount", mp, FALSE)>>]
            ELSE mountAll(path, binds, i + 1, Append(active, mp),
                          log \o <<Ev("MkdirAll", mp, TRUE), Ev("Mount", mp, TRUE)>>,
                          failAt)

\* The loop of Close: the last active mount is taken off the list and
\* unmounted; the unmounts of the positions in failing fail.
RECURSIVE unmountAll(_, _, _, _)
unmountAll(active, failures, log, failing) ==
    IF Len(active) = 0
    THEN [failures |-> failures, log |-> log]
    ELSE LET curr == active[Len(active)]
             ok == Len(active) \notin failing
         IN unmountAll(SubSeq(active, 1, Len(active) - 1),
                       IF ok THEN failures ELSE Append(failures, curr),
                       Append(log, Ev("Unmount", curr, ok)),
                       failing)

\* fmt.Errorf("failed closing chroot environment. Unmount failures: %v", failures)
UnmountFailures(failures) ==
    <<[kind |-> "failed closing chroot environment", n |-> Len(failures),
       mounts |-> failures]>>

CloseKeepsAll(c, failing) ==
    LET r == unmountAll(c.activeMounts, <<>>, <<Ev("sync", <<>>, TRUE)>>, failing)
    IN IF Len(r.failures) > 0
       THEN [err |-> UnmountFailures(r.failures), c |-> c, log |-> r.log]
       ELSE [err |-> Nil, c |-> [c EXCEPT !.activeMounts = <<>>], log |-> r.log]

\* The result of "sync" is dropped.
Close(c, failing) ==
    LET r == unmountAll(c.activeMounts, <<>>, <<Ev("sync", <<>>, TRUE)>>, failing)
    IN IF Len(r.failures) > 0
       THEN [err |-> UnmountFailures(r.failures),
             c |-> [c EXCEPT !.activeMounts = r.failures], log |-> r.log]
       ELSE [err |-> Nil, c |-> [c EXCEPT !.activeMounts = <<>>], log |-> r.log]

AlreadyActive == Err("there are already active mountpoints for this instance", 0)

PrepareLeavesMounts(c, failAt, failing) ==
    IF Len(c.activeMounts) > 0
    THEN [err |-> AlreadyActive, c |-> c, log |-> <<>>]
    ELSE LET m == mountAll(c.path, bindMounts(c), 1, c.activeMounts, <<>>, failAt)
         IN [err |-> m.err, c |-> [c EXCEPT !.activeMounts = m.activeMounts],
             log |-> m.log]

PrepareUnchecked(c, failAt, failing) ==
    LET m == mountAll(c.path, bindMounts(c), 1, c.activeMounts, <<>>, failAt)
        bound == [c EXCEPT !.activeMounts = m.activeMounts]
    IN IF m.err # Nil
       THEN LET cl == Close(bound, failing)
            IN [err |-> m.err, c |-> cl.c, log |-> m.log \o cl.log]
       ELSE [err |-> Nil, c |-> bound, log |-> m.log]

\* Prepare; the deferred function closes the chroot when err is not nil.
Prepare(c, failAt, failing) ==
    IF Len(c.activeMounts) > 0
    THEN [err |-> AlreadyActive, c |-> c, log |-> <<>>]
    ELSE LET m == mountAll(c.path, bindMounts(c), 1, c.activeMounts, <<>>, failAt)
             bound == [c EXCEPT !.activeMounts = m.activeMounts]
         IN IF m.err # Nil
            THEN LET cl == Close(bound, failing)
                 IN [err |-> m.err, c |-> cl.c, log |-> m.log \o cl.log]
            ELSE [err |-> Nil, c |-> bound, log |-> m.log]

\* What RunCallback has come to: its named result err, the Chroot and the
\* calls made so far.
Ran(e, c, log) == [err |-> e, c |-> c, log |-> log]

\* defer: tmpErr := os.Chdir(currentPath); it is returned when err is nil.
deferChdir(r, fails) ==
    Ran(IF r.err = Nil /\ fails THEN Err("os.Chdir", 0) ELSE r.err,
        r.c,
        Append(r.log, Ev("os.Chdir", currentPath, ~fails)))

\* defer oldRootF.Close()
deferCloseRoot(r) == Ran(r.err, r.c, Append(r.log, Ev("oldRootF.Close", <<"">>, TRUE)))

deferCloseSkipped(r, failing) == r

deferCloseOverrides(r, failing) ==
    LET cl == Close(r.c, failing)
    IN Ran(cl.err, cl.c, r.log \o cl.log)

\* defer: tmpErr := c.Close(); it is returned when err is nil.
deferClose(r, failing) ==
    LET cl == Close(r.c, failing)
    IN Ran(IF r.err = Nil THEN cl.err ELSE r.err, cl.c, r.log \o cl.log)

deferRestoreSkipped(r, restore) == r

\* defer: oldRootF.Chdir(), then c.syscall.Chroot("."); the first error of the
\* two is returned when err is nil. restore names the call that fails.
deferRestore(r, restore) ==
    IF restore = "Fchdir"
    THEN Ran(IF r.err = Nil THEN Err("oldRootF.Chdir", 0) ELSE r.err,
             r.c,
             Append(r.log, Ev("oldRootF.Chdir", <<"">>, FALSE)))
    ELSE Ran(IF r.err = Nil /\ restore = "Chroot" THEN Err("Chroot", 1) ELSE r.err,
             r.c,
             r.log \o <<Ev("oldRootF.Chdir", <<"">>, TRUE),
                        Ev("Chroot", <<".">>, restore # "Chroot")>>)

\* RunCallback from c.syscall.Chdir(c.path) on.
enterAndRun(r, failAt) ==
    IF failAt = "Chdir"
    THEN Ran(Err("Chdir", 0), r.c, Append(r.log, Ev("Chdir", r.c.path, FALSE)))
    ELSE IF failAt = "Chroot"
    THEN Ran(Err("Chroot", 0), r.c,
             r.log \o <<Ev("Chdir", r.c.path, TRUE), Ev("Chroot", r.c.path, FALSE)>>)
    ELSE Ran(IF failAt = "callback" THEN Err("callback", 0) ELSE Nil,
             r.c,
             r.log \o <<Ev("Chdir", r.c.path, TRUE), Ev("Chroot", r.c.path, TRUE),
                        Ev("callback", <<>>, failAt # "callback")>>)

\* RunCallback. in.failAt names the failing call of the body ("none" when all
\* succeed, "Prepare" with the failing step in.prepareFailAt), in.restore the
\* failing call of the return to the old root, in.failing the positions whose
\* unmount fails and in.chdirFails whether the final os.Chdir fails.
RunCallback(c, in) ==
    IF in.failAt = "Getwd"
    THEN Ran(Err("Getwd", 0), c, <<Ev("Getwd", <<>>, FALSE)>>)
    ELSE LET abs == [c EXCEPT !.path = IF IsAbs(c.path) THEN c.path
                                       ELSE CleanJoin(currentPath, c.path)]
         IN IF in.failAt = "OpenFile"
            THEN deferChdir(Ran(Err("OpenFile", 0), abs,
                                <<Ev("Getwd", <<>>, TRUE), Ev("OpenFile", <<"">>, FALSE)>>),
                            in.chdirFails)
            ELSE LET opened == Ran(Nil, abs, <<Ev("Getwd", <<>>, TRUE),
                                               Ev("OpenFile", <<"">>, TRUE)>>)
                     own == Len(abs.activeMounts) = 0
                     p == IF own THEN Prepare(abs, in.prepareFailAt, in.failing)
                          ELSE Ran(Nil, abs, <<>>)
                     prepared == Ran(p.err, p.c, opened.log \o p.log)
                     body == IF p.err # Nil THEN prepared
                             ELSE enterAndRun(prepared, in.failAt)
                     chrooted == \E i \in 1..Len(body.log) :
                                     body.log[i] = Ev("Chroot", abs.path, TRUE)
                     restored == IF chrooted THEN deferRestore(body, in.restore)
                                 ELSE body
                     closed == IF own /\ p.err = Nil
                               THEN deferClose(restored, in.failing)
                               ELSE restored
                 IN deferChdir(deferCloseRoot(closed), in.chdirFails)

\* The mounter: what is mounted after the calls of log, in mount order.
RECURSIVE Replay(_, _)
Replay(held, log) ==
    IF log = <<>> THEN held
    ELSE LET e == Head(log)
             next == IF e.call = "Mount" /\ e.ok THEN Append(held, e.arg)
                     ELSE IF e.call = "Unmount" /\ e.ok
                     THEN LET at == {i \in 1..Len(held) : held[i] = e.arg}
                              top == CHOOSE i \in at : \A j \in at : j <= i
                          IN IF at = {} THEN held
                             ELSE SubSeq(held, 1, top - 1)
                                  \o SubSeq(held, top + 1, Len(held))
                     ELSE held
         IN Replay(next, Tail(log))

-----------------------------------------------------------------------------
(* pkg/deployment: Merge *)

\* A nil *Partition or *Disk.
NilPtr == [nil |-> TRUE]

\* The labels partitions carry; "" is the label of an unlabeled partition.
Labels == {"EFI", "SYSTEM", "NEW"}

\* Partition{Label, Size, Role}; "" and 0 are the zero values of the fields.
Partition(label, size, role) == [label |-> label, size |-> size, role |-> role]

\* Disk{Device, Partitions}
Disk(device, partitions) == [device |-> device, partitions |-> partitions]

\* Deployment{Disks, CfgScript}
Deployment(disks, cfgScript) == [disks |-> disks, cfgScript |-> cfgScript]

\* mergo.WithOverride on a field of a basic type: a non-zero src replaces dst.
override(dstField, srcField, zero) ==
    IF srcField # zero THEN srcField ELSE dstField

\* mergo.Merge(entry, srcEntry, mergo.WithOverride, ...) on two partitions
mergePartition(entry, srcEntry) ==
    Partition(override(entry.label, srcEntry.label, ""),
              override(entry.size, srcEntry.size, 0),
              override(entry.role, srcEntry.role, 0))

\* The key function of mergePartitions.
key(p) == IF p = NilPtr THEN "" ELSE p.label

NoSources == [k \in {} |-> NilPtr]

PutIfAbsent(m, k, v) ==
    [x \in DOMAIN m \cup {k} |-> IF x \in DOMAIN m THEN m[x] ELSE v]

\* keyedSources[entryKey] = entry
Put(m, k, v) ==
    [x \in DOMAIN m \cup {k} |-> IF x = k THEN v ELSE m[x]]

\* delete(keyedSources, entryKey)
Delete(m, k) == [x \in DOMAIN m \ {k} |-> m[x]]

\* The loop over srcSlice from its i-th entry on.
RECURSIVE sourceLoop(_, _, _, _)
sourceLoop(srcSlice, i, keyedSources, final) ==
    IF i > Len(srcSlice)
    THEN [keyedSources |-> keyedSources, final |-> final]
    ELSE LET entry == srcSlice[i]
         IN IF entry = NilPtr
            THEN sourceLoop(srcSlice, i + 1, keyedSources, final)
            ELSE IF key(entry) # ""
            THEN sourceLoop(srcSlice, i + 1, Put(keyedSources, key(entry), entry),
                            final)
            ELSE sourceLoop(srcSlice, i + 1, keyedSources, Append(final, entry))

\* The loop over destSlice from its i-th entry on.
RECURSIVE destLoop(_, _, _, _)
destLoop(destSlice, i, keyedSources, processedDestEntries) ==
    IF i > Len(destSlice)
    THEN [keyedSources |-> keyedSources,
          processedDestEntries |-> processedDestEntries]
    ELSE LET entry == destSlice[i]
         IN IF entry = NilPtr
            THEN destLoop(destSlice, i + 1, keyedSources, processedDestEntries)
            ELSE IF key(entry) = ""
            THEN destLoop(destSlice, i + 1, keyedSources,
                          Append(processedDestEntries, entry))
            ELSE IF key(entry) \in DOMAIN keyedSources
            THEN destLoop(destSlice, i + 1, Delete(keyedSources, key(entry)),
                          Append(processedDestEntries,
                                 mergePartition(entry, keyedSources[key(entry)])))
            ELSE destLoop(destSlice, i + 1, keyedSources,
                          Append(processedDestEntries, entry))

\* for _, v := range keyedSources: the iteration order of a map is not
\* specified; order is the order this iteration happens to visit the labels in.
rangeOver(keyedSources, order) ==
    LET keys == SelectSeq(order, LAMBDA k : k \in DOMAIN keyedSources)
    IN [i \in 1..Len(keys) |-> keyedSources[keys[i]]]

mergePtrSliceByKeyAppending(destSlice, srcSlice, order) ==
    LET s == sourceLoop(srcSlice, 1, NoSources, <<>>)
        dl == destLoop(destSlice, 1, s.keyedSources, <<>>)
    IN [panic |-> FALSE, err |-> Nil,
        final |-> dl.processedDestEntries \o s.final
                  \o rangeOver(dl.keyedSources, order)]

mergePtrSliceByKeyKeyedFirst(destSlice, srcSlice, order) ==
    LET s == sourceLoop(srcSlice, 1, NoSources, <<>>)
        dl == destLoop(destSlice, 1, s.keyedSources, <<>>)
    IN [panic |-> FALSE, err |-> Nil,
        final |-> rangeOver(dl.keyedSources, order) \o s.final
                  \o dl.processedDestEntries]

mergePtrSliceByKeyNilAdded(destSlice, srcSlice, order) ==
    LET s == sourceLoop(srcSlice, 1, NoSources, <<>>)
        dl == destLoop(destSlice, 1, s.keyedSources, <<>>)
    IN [panic |-> FALSE, err |-> Nil,
        final |-> SelectSeq(srcSlice, LAMBDA e : e = NilPtr) \o s.final
                  \o rangeOver(dl.keyedSources, order)
                  \o dl.processedDestEntries]

mergePtrSliceByKey(destSlice, srcSlice, order) ==
    LET s == sourceLoop(srcSlice, 1, NoSources, <<>>)
        dl == destLoop(destSlice, 1, s.keyedSources, <<>>)
    IN [panic |-> FALSE, err |-> Nil,
        final |-> s.final \o rangeOver(dl.keyedSources, order)
                  \o dl.processedDestEntries]

\* mergo.Merge(destSlice[i], srcSlice[i], ...) on two disks: Device is
\* overridden, Partitions go through the transformer of Partitions.
mergeDisk(dest, src, order) ==
    Disk(override(dest.device, src.device, ""),
         mergePtrSliceByKey(dest.partitions, src.partitions, order).final)

\* "for i := range destSize" from the i-th index on; srcSlice[i] beyond the
\* end of srcSlice panics.
RECURSIVE indexLoop(_, _, _, _, _)
indexLoop(destSlice, srcSlice, i, finalSlice, order) ==
    IF i > Len(destSlice)
    THEN [panic |-> FALSE, finalSlice |-> finalSlice]
    ELSE IF i > Len(srcSlice)
    THEN [panic |-> TRUE, finalSlice |-> finalSlice]
    ELSE IF srcSlice[i] = NilPtr
    THEN indexLoop(destSlice, srcSlice, i + 1, finalSlice, order)
    ELSE IF destSlice[i] = NilPtr
    THEN indexLoop(destSlice, srcSlice, i + 1, Append(finalSlice, srcSlice[i]), order)
    ELSE indexLoop(destSlice, srcSlice, i + 1,
                   Append(finalSlice, mergeDisk(destSlice[i], srcSlice[i], order)),
                   order)

mergePtrSliceIndex(destSlice, srcSlice, order) ==
    IF Len(srcSlice) = 0
    THEN [panic |-> FALSE, err |-> Nil, final |-> destSlice]
    ELSE LET l == indexLoop(destSlice, srcSlice, 1, <<>>, order)
         IN [panic |-> l.panic, err |-> Nil,
             final |-> IF l.panic THEN <<>>
                       ELSE l.finalSlice
                            \o SelectSeq(SubSeq(srcSlice, Len(destSlice) + 1,
                                                Len(srcSlice)),
                                         LAMBDA item : item # NilPtr)]

\* deployment.Merge: mergo.Merge(dst, src, mergo.WithOverride,
\* mergo.WithTransformers(t)); Disks go through the transformer of []*Disk.
DeploymentMerge(dst, src, order) ==
    LET disks == mergePtrSliceIndex(dst.disks, src.disks, order)
    IN [panic |-> disks.panic, err |-> disks.err,
        dst |-> IF disks.panic THEN dst
                ELSE Deployment(disks.final,
                                override(dst.cfgScript, src.cfgScript, ""))]

-----------------------------------------------------------------------------
(* pkg/install: Installer.Install *)

\* deployment.RWVolume{Path, Snapshotted}
RWVolume(path, snapshotted) == [path |-> path, snapshotted |-> snapshotted]

\* deployment.Partition{UUID, Role, MountPoint, RWVolumes}; the mount point ""
\* is <<"">>.
RWPartition(uuid, role, mp, rwVolumes) ==
    [uuid |-> uuid, role |-> role, mountPoint |-> mp,
     rwVolumes |-> rwVolumes]

\* "x := v" followed by the statements Op(x): v is computed once.
Bind(v, Op(_)) == CHOOSE r \in {Op(x) : x \in {v}} : TRUE

\* A call Install makes on the system (diskrepart, vfs, block, the mounter,
\* btrfs, the upgrader): it is the next entry of the log, and it returns an
\* error when it is the failAt-th call of the run.
Sys(st, call, arg, failAt) ==
    LET ok == Len(st.log) + 1 # failAt
    IN [st EXCEPT !.log = Append(@, Ev(call, arg, ok)),
                  !.err = IF ok THEN Nil ELSE Err(call, arg)]

cleanupTypeAlways(call) == always

cleanupTypeSuccessOnly(call) == successOnly

\* The type createPartitionVolumes pushes a cleanup task with: PushSuccessOnly
\* for the RemoveAll of the mount directory, Push for the Unmount.
cleanupType(call) == IF call = "RemoveAll" THEN successOnly ELSE always

\* cleanStack.Push...(func() error { return <call>(mountPoint) }); the task
\* returns an error when it is one of failing.
PushTask(st, call, mp, failing) ==
    LET task == [call |-> call, mountPoint |-> mp]
        p == PushJob(st.jobs, st.count,
                     Job(task, cleanupType(call), task \in failing))
    IN [st EXCEPT !.jobs = p.jobs, !.count = p.count]

\* The loop "for _, rwVol := range part.RWVolumes", from the i-th volume on.
RECURSIVE createSubvolumes(_, _, _, _, _)
createSubvolumes(st, mp, rwVolumes, i, failAt) ==
    IF i > Len(rwVolumes) THEN st
    ELSE IF rwVolumes[i].snapshotted
    THEN createSubvolumes(st, mp, rwVolumes, i + 1, failAt)
    ELSE Bind(Sys(st, "CreateSubvolume",
                  <<mp>> \o CleanJoin(<<"@">>, rwVolumes[i].path), failAt),
              LAMBDA sub :
                  IF sub.err # Nil THEN sub
                  ELSE createSubvolumes(sub, mp, rwVolumes, i + 1, failAt))

\* vfs.TempDir names a new directory on every call: the one made for a
\* partition is named by the UUID of the partition.
createPartitionVolumes(st, part, failAt, failing) ==
    LET mp == part.uuid
        AfterMount(mnt) ==
            Bind(Sys(PushTask(mnt, "Unmount", mp, failing),
                     "SetBtrfsPartition", <<mp>>, failAt),
                 LAMBDA set :
                     IF set.err # Nil THEN set
                     ELSE createSubvolumes(set, mp, part.rwVolumes, 1, failAt))
        AfterFound(found) ==
            IF found.err # Nil THEN found
            ELSE Bind(Sys(found, "Mount", <<mp>>, failAt),
                      LAMBDA mnt : IF mnt.err # Nil THEN mnt ELSE AfterMount(mnt))
        AfterTempDir(tmp) ==
            IF tmp.err # Nil THEN tmp
            ELSE Bind(Sys(PushTask(tmp, "RemoveAll", mp, failing),
                          "GetPartitionByUUID", <<part.uuid>>, failAt),
                      AfterFound)
    IN IF Len(part.rwVolumes) > 0 \/ part.role = "system"
       THEN Bind(Sys(st, "TempDir", <<mp>>, failAt), AfterTempDir)
       ELSE createSubvolumes(st, 0, part.rwVolumes, 1, failAt)

\* The loops "for _, disk := range d.Disks" and "for _, part := range
\* disk.Partitions", from the j-th partition of the i-th disk on; j = 0 is the
\* point before PartitionAndFormatDevice.
RECURSIVE installLoop(_, _, _, _, _, _)
installLoop(st, disks, i, j, failAt, failing) ==
    IF i > Len(disks) THEN st
    ELSE IF j = 0
    THEN Bind(Sys(st, "PartitionAndFormatDevice", <<i>>, failAt),
              LAMBDA fmt :
                  IF fmt.err # Nil THEN fmt
                  ELSE installLoop(fmt, disks, i, 1, failAt, failing))
    ELSE IF j > Len(disks[i])
    THEN installLoop(st, disks, i + 1, 0, failAt, failing)
    ELSE Bind(createPartitionVolumes(st, disks[i][j], failAt, failing),
              LAMBDA vol :
                  IF vol.err # Nil THEN vol
                  ELSE installLoop(vol, disks, i, j + 1, failAt, failing))

\* Installer.Install with its deferred "err = cleanup.Cleanup(err)"; the log
\* ends with the tasks Cleanup ran.
Install(disks, failAt, failing) ==
    LET new == [jobs |-> <<>>, count |-> 0, log |-> <<>>, err |-> Nil]
        Cleaned(body) ==
            Bind(CleanupRun(body.jobs, body.count, body.err),
                 LAMBDA c :
                     [err |-> c.err, body |-> body.err,
                      log |-> body.log \o
                              [k \in 1..Len(c.ran) |->
                                  Ev(c.ran[k].call, <<c.ran[k].mountPoint>>,
                                     c.ran[k] \notin failing)]])
    IN Bind(installLoop(new, disks, 1, 0, failAt, failing),
            LAMBDA vols :
                IF vols.err # Nil THEN Cleaned(vols)
                ELSE Bind(Sys(vols, "Upgrade", <<>>, failAt), Cleaned))

-----------------------------------------------------------------------------
(* pkg/transaction: the upgrade helper on the volumes of a deployment *)

\* excludes = append(excludes, ...) in nested loops: the lists of the rounds,
\* one after the other.
RECURSIVE Concat(_)
Concat(lists) == IF lists = <<>> THEN <<>> ELSE Head(lists) \o Concat(Tail(lists))

firstTransactionNever(id) == FALSE

\* The argument "trans.ID == 1" of syncSnapshotExcludes.
firstTransaction(id) == id = 1

syncSnapshotDeleteExcludesOfRoot(parts) ==
    <<CleanJoin(<<"", "">>, <<".snapshots">>)>>

\* snapper.SnapshotsPath is ".snapshots".
syncSnapshotExcludes(parts, fullSync) ==
    <<CleanJoin(<<"", "">>, <<".snapshots">>)>> \o
    Concat([i \in 1..Len(parts) |->
        (IF ~fullSync /\ parts[i].role # "system" /\ parts[i].mountPoint # <<"">>
         THEN <<parts[i].mountPoint>> ELSE <<>>) \o
        Concat([j \in 1..Len(parts[i].rwVolumes) |->
            LET rwVol == parts[i].rwVolumes[j]
            IN IF rwVol.snapshotted
               THEN <<CleanJoin(rwVol.path, <<".snapshots">>)>>
               ELSE IF ~fullSync THEN <<rwVol.path>> ELSE <<>>])])

syncSnapshotDeleteExcludes(parts) ==
    <<CleanJoin(<<"", "">>, <<".snapshots">>)>> \o
    Concat([i \in 1..Len(parts) |->
        (IF parts[i].role # "system" /\ parts[i].mountPoint # <<"">>
         THEN <<parts[i].mountPoint>> ELSE <<>>) \o
        [j \in 1..Len(parts[i].rwVolumes) |-> parts[i].rwVolumes[j].path]])

\* fmt.Errorf("<msg>: %w", e): the message in front of what e holds; a nil e
\* leaves the message alone.
Errorf(msg, e) == Err(msg, <<>>) \o e

\* strings.TrimPrefix(s, prefix) on paths.
TrimPrefix(s, prefix) ==
    IF Len(s) >= Len(prefix) /\ SubSeq(s, 1, Len(prefix)) = prefix
    THEN <<"">> \o SubSeq(s, Len(prefix) + 1, Len(s))
    ELSE s

\* r.FindStringSubmatch(line) for (([-+ct.])[p.][u.][g.][x.][a.])\s+(.*): a
\* line is its first word, character by character, and the rest. match[1] is
\* the group of six characters, match[2] its first, match[3] the file.
FindStringSubmatch(line) ==
    LET classes == <<{"-", "+", "c", "t", "."}, {"p", "."}, {"u", "."},
                     {"g", "."}, {"x", "."}, {"a", "."}>>
    IN IF /\ Len(line.word) = 6
          /\ \A k \in 1..6 : line.word[k] \in classes[k]
       THEN <<line.word, line.word[1], line.file>>
       ELSE <<>>

\* "for scanner.Scan()" of applyCustomChanges, from the i-th line on; the
\* string "...." is its four characters.
RECURSIVE scan(_, _, _, _, _, _)
scan(st, lines, i, rwVolPath, new, failAt) ==
    IF i > Len(lines) THEN st
    ELSE LET match == FindStringSubmatch(lines[i])
         IN IF Len(match) = 0
            THEN scan(st, lines, i + 1, rwVolPath, new, failAt)
            ELSE IF match[1] = <<".", ".", ".", ".">>
            THEN scan(st, lines, i + 1, rwVolPath, new, failAt)
            ELSE LET done ==
                        IF match[2] = "-"
                        THEN Sys(st, "RemoveAll", CleanJoin(new, match[3]), failAt)
                        ELSE Sys(st, "Fprintln", TrimPrefix(match[3], rwVolPath),
                                 failAt)
                 IN IF done.err # Nil THEN done
                    ELSE scan(done, lines, i + 1, rwVolPath, new, failAt)

\* applyCustomChanges; closeFails: statusF.Close() returns an error.
applyCustomChanges(st, lines, rwVolPath, merge, failAt, closeFails) ==
    LET statusF == Sys(st, "OpenFile", <<"snap_status">>, failAt)
        syncF == Sys(statusF, "OpenFile", <<"sync">>, failAt)
        scanned == scan(syncF, lines, 1, rwVolPath, merge.New, failAt)
        closed == Sys(scanned, "Close", <<"sync">>, failAt)
        sync == Sys(closed, "SyncData", merge.Modified, failAt)
        body == IF syncF.err # Nil
                THEN [syncF EXCEPT
                        !.err = Errorf("failed opening modified files list", @)]
                ELSE IF scanned.err # Nil THEN scanned
                ELSE IF closed.err # Nil
                THEN [closed EXCEPT
                        !.err = Errorf("failed closing modified files list", @)]
                ELSE sync
        e == IF closeFails THEN Err("Close", <<"snap_status">>) ELSE Nil
    IN IF statusF.err # Nil THEN statusF
       ELSE [body EXCEPT
               !.err = IF @ # Nil THEN Errorf("failed closing status file", e)
                       ELSE @]

\* merge for the one snapshotted volume rwVolPath with Merges[rwVolPath] =
\* merge, and Merge around it once snapper is configured; removeFails: the
\* deferred RemoveAll(tmpDir) returns an error.
mergeVolume(lines, rwVolPath, merge, failAt, closeFails, removeFails) ==
    LET tmpDir == Sys([log |-> <<>>, err |-> Nil], "TempDir", <<"snapStatus">>,
                      failAt)
        status == Sys(tmpDir, "Status", rwVolPath, failAt)
        applied == applyCustomChanges(status, lines, rwVolPath, merge, failAt,
                                      closeFails)
        body == IF status.err # Nil THEN status ELSE applied
        merged ==
            IF tmpDir.err # Nil
            THEN [tmpDir EXCEPT
                    !.err = Errorf("failed creating temporary directory to store snapper output", @)]
            ELSE [body EXCEPT
                    !.err = IF @ = Nil /\ removeFails
                            THEN Err("RemoveAll", <<"snapStatus">>) ELSE @]
    IN [merged EXCEPT
          !.err = IF @ # Nil
                  THEN Errorf("merging content of snapshotted rw volumes", @)
                  ELSE @]

MergesAtAny(merges, path) ==
    IF DOMAIN merges = {} THEN NilPtr
    ELSE merges[CHOOSE k \in DOMAIN merges : TRUE]

\* m := trans.Merges[path]: nil when the map holds no entry for path.
MergesAt(merges, path) ==
    IF path \in DOMAIN merges THEN merges[path] ELSE NilPtr

\* The callback of configureRWVolumes: the loop over the snapshotted volumes,
\* from the i-th on. st.merges is trans.Merges.
RECURSIVE configureRWVolumes(_, _, _, _, _)
configureRWVolumes(st, vols, i, transPath, failAt) ==
    IF i > Len(vols) THEN st
    ELSE Bind(Sys(st, "CreateConfig", vols[i], failAt),
              LAMBDA cfg :
                  IF cfg.err # Nil
                  THEN [cfg EXCEPT !.err = Errorf("creating config", @)]
                  ELSE Bind(Sys(cfg, "CreateSnapshot", vols[i], failAt),
                            LAMBDA snap :
                                IF snap.err # Nil
                                THEN [snap EXCEPT
                                        !.err = Errorf("creating snapshot", @)]
                                ELSE configureRWVolumes(
                                        IF vols[i] \in DOMAIN snap.merges
                                        THEN [snap EXCEPT
                                                !.merges[vols[i]].New =
                                                    CleanJoin(transPath, vols[i])]
                                        ELSE snap,
                                        vols, i + 1, transPath, failAt)))

\* configureSnapper on the volumes vols, call by call.
configureSnapperOf(st, vols, transPath, failAt) ==
    LET target == CleanJoin(transPath, <<".snapshots">>)
        Volumes(mnt) ==
            IF mnt.err # Nil
            THEN [mnt EXCEPT !.err = Errorf("mounting snapshots volume", @)]
            ELSE Bind(configureRWVolumes(mnt, vols, 1, transPath, failAt),
                      LAMBDA cfg :
                          [cfg EXCEPT
                             !.err = IF @ # Nil
                                     THEN Errorf("configuring snapshotted subvolumes", @)
                                     ELSE @])
        SnapshotsDir(dir) ==
            IF dir.err # Nil
            THEN [dir EXCEPT !.err = Errorf("creating snapshots dir", @)]
            ELSE Bind(Sys(dir, "Mount", target, failAt), Volumes)
        Root(root) ==
            IF root.err # Nil
            THEN [root EXCEPT !.err = Errorf("setting root configuration", @)]
            ELSE Bind(Sys(root, "MkdirAll", target, failAt), SnapshotsDir)
    IN Bind(Sys(st, "ConfigureRoot", transPath, failAt), Root)

\* The loop of merge over the snapshotted volumes, from the i-th on.
\* vfs.TempDir makes a new directory on every call, named here after the
\* volume; when it fails the name it returns is "". st.tmpDir is the variable
\* tmpDir of merge, st.defers the number of deferred functions so far.
RECURSIVE mergeSnapshotted(_, _, _, _, _, _)
mergeSnapshotted(st, vols, i, linesOf, failAt, closeFails) ==
    IF i > Len(vols) THEN st
    ELSE LET m == MergesAt(st.merges, vols[i])
             Applied(status) ==
                 IF status.err # Nil THEN status
                 ELSE Bind(applyCustomChanges(status, linesOf[vols[i]], vols[i],
                                              m, failAt, closeFails),
                           LAMBDA applied :
                               IF applied.err # Nil THEN applied
                               ELSE mergeSnapshotted(applied, vols, i + 1,
                                                     linesOf, failAt, closeFails))
             Made(made) ==
                 IF made.err # Nil
                 THEN [made EXCEPT
                         !.tmpDir = <<"">>,
                         !.err = Errorf("failed creating temporary directory to store snapper output", @)]
                 ELSE Bind(Sys([made EXCEPT
                                  !.tmpDir = <<"snapStatus">> \o Tail(vols[i]),
                                  !.defers = @ + 1],
                               "Status", vols[i], failAt),
                           Applied)
         IN IF m = NilPtr
            THEN mergeSnapshotted(st, vols, i + 1, linesOf, failAt, closeFails)
            ELSE Bind(Sys(st, "TempDir", <<"snapStatus">> \o Tail(vols[i]),
                          failAt),
                      Made)

\* The deferred functions of merge, run when it returns: each calls
\* RemoveAll(tmpDir) with the value the variable tmpDir of merge has by then,
\* and its error is returned when err is nil.
RECURSIVE removeTmpDirs(_, _)
removeTmpDirs(st, failAt) ==
    IF st.defers = 0 THEN st
    ELSE LET ok == Len(st.log) + 1 # failAt
         IN removeTmpDirs(
                [st EXCEPT
                   !.log = Append(@, Ev("RemoveAll", st.tmpDir, ok)),
                   !.err = IF @ = Nil /\ ~ok THEN Err("RemoveAll", st.tmpDir)
                           ELSE @,
                   !.defers = @ - 1],
                failAt)

\* Merge of a started transaction at transPath, on the snapshotted volumes
\* vols with the merges of the transaction; linesOf[v] is what snapper
\* reports for the volume v.
MergeSnapshotted(vols, merges, transPath, linesOf, failAt, closeFails) ==
    LET new == [log |-> <<>>, err |-> Nil, merges |-> merges,
                tmpDir |-> <<"">>, defers |-> 0]
    IN Bind(configureSnapperOf(new, vols, transPath, failAt),
            LAMBDA cfg :
                IF cfg.err # Nil
                THEN [cfg EXCEPT !.err = Errorf("configuring snapper", @)]
                ELSE Bind(mergeSnapshotted(cfg, vols, 1, linesOf, failAt,
                                           closeFails),
                          LAMBDA body :
                              Bind(removeTmpDirs(body, failAt),
                                   LAMBDA merged :
                                       [merged EXCEPT
                                          !.err =
                                             IF @ # Nil
                                             THEN Errorf("merging content of snapshotted rw volumes", @)
                                             ELSE @])))

\* fstab.Line{Device, MountPoint, Options, FsckOrder}; the partitions and
\* volumes have no MountOpts of their own.
Line(device, mp, options, fsckOrder) ==
    [device |-> device, mountPoint |-> mp, options |-> options,
     fsckOrder |-> fsckOrder]

snapshotSubVolOfFirst(id, path) ==
    CleanJoin(<<"@", ".snapshots", "1", "snapshot">>, path)

\* filepath.Join(btrfs.TopSubVol, fmt.Sprintf(snapshotPathTmpl, trans.ID),
\* rwVol.Path)
snapshotSubVol(id, path) ==
    CleanJoin(<<"@", ".snapshots", ToString(id), "snapshot">>, path)

\* createFstab: the lines it hands to fstab.WriteFstab.
createFstab(parts, id) ==
    Concat([i \in 1..Len(parts) |->
        LET part == parts[i]
        IN (IF part.mountPoint # <<"">>
            THEN <<Line(part.uuid, part.mountPoint,
                        IF part.role = "system" THEN <<<<"ro">>>>
                        ELSE <<<<"defaults">>>>,
                        IF part.role = "system" THEN 1 ELSE 2)>>
            ELSE <<>>) \o
           [j \in 1..Len(part.rwVolumes) |->
               LET rwVol == part.rwVolumes[j]
                   subVol == IF rwVol.snapshotted
                             THEN snapshotSubVol(id, rwVol.path)
                             ELSE CleanJoin(<<"@">>, rwVol.path)
               IN Line(part.uuid, rwVol.path, <<<<"subvol=">> \o subVol>>, 0)] \o
           (IF part.role = "system"
            THEN <<Line(part.uuid, CleanJoin(<<"", "">>, <<".snapshots">>),
                        <<<<"subvol=">> \o CleanJoin(<<"@">>, <<".snapshots">>)>>,
                        0)>>
            ELSE <<>>)])

\* updateFstab: the oldLines and newLines it hands to fstab.UpdateFstab.
updateFstab(parts, id) ==
    Concat([i \in 1..Len(parts) |->
        Concat([j \in 1..Len(parts[i].rwVolumes) |->
            LET rwVol == parts[i].rwVolumes[j]
            IN IF ~rwVol.snapshotted THEN <<>>
               ELSE <<[old |-> [mountPoint |-> rwVol.path],
                       new |-> Line(parts[i].uuid, rwVol.path,
                                    <<<<"subvol=">> \o
                                      snapshotSubVol(id, rwVol.path)>>, 0)]>>])])

\* fstab.UpdateFstab(s, fstabFile, oldLines, newLines): every line of the
\* file that an old line matches is replaced by the new line of that place.
fstabUpdateFstab(file, lines) ==
    [k \in 1..Len(file) |->
        IF \E l \in 1..Len(lines) : lines[l].old.mountPoint = file[k].mountPoint
        THEN lines[CHOOSE l \in 1..Len(lines) :
                      lines[l].old.mountPoint = file[k].mountPoint].new
        ELSE file[k]]

-----------------------------------------------------------------------------
(* pkg/transaction: the engine behind transaction.Interface *)

FreshDisk ==
    /\ nextID = 1
    /\ snapshots = {}
    /\ defaultSnap = 0
    /\ esp = FreshESP

\* Start: the next snapshot ID is taken, the snapshot created, status = started.
TxStart ==
    /\ trans' = Transaction(nextID, started)
    /\ snapshots' = snapshots \cup {nextID}
    /\ nextID' = nextID + 1
    /\ UNCHANGED defaultSnap

\* Commit: the snapshot becomes the default one, status = committed.
TxCommit ==
    /\ trans' = [trans EXCEPT !.status = "committed"]
    /\ defaultSnap' = trans.ID
    /\ UNCHANGED <<nextID, snapshots>>

\* Rollback: the snapshot is deleted, status = rolledback. A Rollback that
\* returns an error has deleted nothing.
TxRollback(fails) ==
    /\ trans' = IF fails THEN trans ELSE [trans EXCEPT !.status = "rolledback"]
    /\ snapshots' = IF fails THEN snapshots ELSE snapshots \ {trans.ID}
    /\ UNCHANGED <<nextID, defaultSnap>>

-----------------------------------------------------------------------------
(* The upgrade helper called directly, on a transaction in any status *)

NoCall == [method |-> "none", status |-> "init", cancelled |-> FALSE,
           err |-> Nil, fx |-> <<>>]

NoTransaction ==
    /\ ctxCancelled = FALSE
    /\ trans = Transaction(0, "init")
    /\ effects = <<>>

NoHelperCall ==
    /\ last = NoCall
    /\ hCalls = 0

NoDeployment == [overlay |-> FALSE, cfgScript |-> FALSE, hasESP |-> FALSE]

NoUpgrade ==
    /\ pc = "idle"
    /\ upErr = Nil
    /\ calls = <<>>
    /\ d = NoDeployment
    /\ upRuns = 0

NoChrootCall == [op |-> "none", at |-> <<>>, err |-> Nil, log |-> <<>>]

NoOutcome == [ran |-> FALSE]

NoInstall == inst = NoOutcome

NoVolumes ==
    /\ scParts = <<>>
    /\ fstabFile = [exists |-> FALSE, lines |-> <<>>]
    /\ volLast = NoOutcome
    /\ volCalls = 0

\* The packages exercised on their own are idle.
NoPackages ==
    /\ installed = <<>>
    /\ grubCalls = 0
    /\ grubLast = NoOutcome
    /\ chroot = NewChroot(<<"", "whatever">>)
    /\ mounted = <<>>
    /\ chLast = NoChrootCall
    /\ chOps = 0
    /\ mgDst = <<>>
    /\ mgSrc = <<>>
    /\ mgOut = NoOutcome
    /\ NoInstall

InitHelper ==
    /\ NewCleanStack
    /\ ctxCancelled = FALSE
    /\ trans \in {Transaction(id, st) : id \in 1..MaxTransID, st \in TransStatus}
    /\ effects = <<>>
    /\ NoHelperCall
    /\ FreshDisk
    /\ NoUpgrade
    /\ NoPackages
    /\ NoVolumes

HelperCall(method, r) ==
    /\ hCalls < MaxHelperCalls
    /\ hCalls' = hCalls + 1
    /\ last' = [method |-> method, status |-> trans.status, cancelled |-> ctxCancelled,
                err |-> r.err, fx |-> r.fx]
    /\ effects' = effects \o r.fx
    /\ UNCHANGED <<ctxCancelled, trans, csVars, snapVars, esp, upVars, pkgVars>>

CallSyncImageContent ==
    \E failAt \in 0..2 :
        HelperCall("SyncImageContent", SyncImageContent(trans.status, ctxCancelled, failAt))

CallMerge ==
    \E failAt \in 0..5 :
        HelperCall("Merge", Merge(trans.status, ctxCancelled, failAt))

CallUpdateFstab ==
    \E fstabExists \in BOOLEAN, failAt \in 0..1 :
        HelperCall("UpdateFstab",
                   UpdateFstab(trans.status, ctxCancelled, fstabExists, failAt))

CallLock ==
    \E failAt \in 0..1 :
        HelperCall("Lock", Lock(trans.status, ctxCancelled, failAt))

\* The context is cancelled (a signal, a timeout) between two calls.
Cancel ==
    /\ ~ctxCancelled
    /\ ctxCancelled' = TRUE
    /\ UNCHANGED <<trans, effects, csVars, hVars, pkgVars, snapVars, esp, upVars>>

NextHelper ==
    \/ CallSyncImageContent
    \/ CallMerge
    \/ CallUpdateFstab
    \/ CallLock
    \/ Cancel

SpecHelper == InitHelper /\ [][NextHelper]_vars

HelperMethods == {"SyncImageContent", "Merge", "UpdateFstab", "Lock"}

\* C9: SyncImageContent, Merge, UpdateFstab and Lock called with a transaction
\* whose status is not started return an error and perform none of their effects.
C9_NotStartedIsRejectedWithoutEffects ==
    (last.method \in HelperMethods /\ last.status # started) =>
        /\ last.err # Nil
        /\ last.fx = <<>>
        /\ effects = <<>>

C9_Witness ==
    /\ hCalls > 0
    /\ last.method = "SyncImageContent"
    /\ last.status = "committed"
    /\ ~last.cancelled
    /\ last.err # Nil

\* C10: a helper method invoked with an already cancelled context returns the
\* cancelled error before performing any of its effects.
C10_CancelledAtEntryHasNoEffects ==
    (last.method \in HelperMethods /\ last.cancelled) =>
        /\ Contains(last.err, Err("cancelled", 0))
        /\ last.fx = <<>>

-----------------------------------------------------------------------------
(* pkg/upgrade: Upgrader.Upgrade *)

Deployments == [overlay : BOOLEAN, cfgScript : BOOLEAN, hasESP : BOOLEAN]

UpgradeStepsRelabelFirst ==
    <<"Init", "Start", "SyncImageContent", "Merge", "ChrootedRelabel", "UpdateFstab",
      "WriteDeploymentFile", "Lock", "Unpack", "configHook", "Install", "Commit">>

\* The calls of Upgrade in the order of its statements.
UpgradeSteps ==
    <<"Init", "Start", "SyncImageContent", "Merge", "UpdateFstab", "ChrootedRelabel",
      "WriteDeploymentFile", "Lock", "Unpack", "configHook", "Install", "Commit">>

\* The conditions that guard a call: d.OverlayTree set and not empty, d.CfgScript set.
Guarded(step, dep) ==
    CASE step = "Unpack" -> dep.overlay
      [] step = "configHook" -> dep.cfgScript
      [] OTHER -> TRUE

RECURSIVE StepFrom(_, _, _)
StepFrom(steps, i, dep) ==
    IF i > Len(steps) THEN "return"
    ELSE IF Guarded(steps[i], dep) THEN steps[i]
    ELSE StepFrom(steps, i + 1, dep)

IndexOf(steps, step) == CHOOSE i \in 1..Len(steps) : steps[i] = step

\* The statement reached when the call step has returned no error.
After(step, dep) == StepFrom(UpgradeSteps, IndexOf(UpgradeSteps, step) + 1, dep)

\* cleanup.PushErrorOnly(func() error { return u.t.Rollback(trans, err) })
RollbackJobAlways(id, fails) == Job(id, always, fails)

RollbackJob(id, fails) == Job(id, errorOnly, fails)

Call(step, e) == [step |-> step, ok |-> e = Nil]

\* err = <call>; if err != nil { return err }
Returned(step, e, fx) ==
    /\ pc = step
    /\ calls' = Append(calls, Call(step, e))
    /\ upErr' = e
    /\ pc' = IF e # Nil THEN "return" ELSE After(step, d)
    /\ effects' = effects \o fx
    /\ UNCHANGED <<d, upRuns, ctxCancelled, hVars, pkgVars>>

External(name, fails) == IF fails THEN Err(name, 0) ELSE Nil

\* Upgrade is called: cleanup := cleanstack.NewCleanStack()
UpgradeCall ==
    /\ pc \in {"idle", "done"}
    /\ upRuns < MaxRuns
    /\ upRuns' = upRuns + 1
    /\ d' \in Deployments
    /\ pc' = StepFrom(UpgradeSteps, 1, d')
    /\ upErr' = Nil
    /\ calls' = <<>>
    /\ effects' = <<>>
    /\ trans' = Transaction(0, "init")
    /\ jobs' = <<>>
    /\ count' = 0
    /\ csOp' = "New"
    /\ csAt' = <<>>
    /\ csIn' = Nil
    /\ csRet' = Nil
    /\ visited' = <<>>
    /\ ran' = <<>>
    /\ UNCHANGED <<nextTask, cleanups, ctxCancelled, hVars, pkgVars, snapVars, esp>>

StepInit ==
    /\ \E fails \in BOOLEAN : Returned("Init", External("Init", fails), <<>>)
    /\ UNCHANGED <<trans, csVars, snapVars, esp>>

StepStart ==
    \E fails \in BOOLEAN, rollbackFails \in BOOLEAN :
        /\ Returned("Start", External("Start", fails), <<>>)
        /\ IF fails
           THEN UNCHANGED <<trans, snapVars, jobs, count, nextTask, csOp>>
           ELSE /\ TxStart
                /\ LET r == PushJob(jobs, count, RollbackJob(nextTask + 1, rollbackFails))
                   IN /\ jobs' = r.jobs
                      /\ count' = r.count
                /\ nextTask' = nextTask + 1
                /\ csOp' = "PushErrorOnly"
        /\ UNCHANGED <<csAt, csIn, csRet, visited, ran, cleanups, esp>>

StepHelper(step, r) ==
    /\ Returned(step, r.err, r.fx)
    /\ UNCHANGED <<trans, csVars, snapVars, esp>>

StepSyncImageContent ==
    \E failAt \in 0..2 :
        StepHelper("SyncImageContent", SyncImageContent(trans.status, ctxCancelled, failAt))

StepMerge ==
    \E failAt \in 0..5 :
        StepHelper("Merge", Merge(trans.status, ctxCancelled, failAt))

StepUpdateFstab ==
    \E fstabExists \in BOOLEAN, failAt \in 0..1 :
        StepHelper("UpdateFstab",
                   UpdateFstab(trans.status, ctxCancelled, fstabExists, failAt))

\* selinux.ChrootedRelabel(u.ctx, ...): a done context makes it return an error.
StepChrootedRelabel ==
    \E fails \in BOOLEAN :
        StepHelper("ChrootedRelabel",
                   IF fails \/ ctxCancelled THEN Failed("ChrootedRelabel", <<>>)
                   ELSE Done(<<"ChrootedRelabel">>))

StepWriteDeploymentFile ==
    \E fails \in BOOLEAN :
        StepHelper("WriteDeploymentFile",
                   IF fails THEN Failed("WriteDeploymentFile", <<>>)
                   ELSE Done(<<"WriteDeploymentFile">>))

StepLock ==
    \E failAt \in 0..1 :
        StepHelper("Lock", Lock(trans.status, ctxCancelled, failAt))

\* unpack.NewUnpacker(u.s, d.OverlayTree), then unpacker.Unpack(u.ctx, trans.Path)
StepUnpack ==
    \E failAt \in 0..2 :
        StepHelper("Unpack",
                   IF failAt = 1 THEN Failed("NewUnpacker", <<>>)
                   ELSE IF failAt = 2 \/ ctxCancelled THEN Failed("Unpack", <<>>)
                   ELSE Done(<<"Unpack">>))

\* u.configHook: the script run in a chroot with RunContextParseOutput(u.ctx, ...)
StepConfigHook ==
    \E fails \in BOOLEAN :
        StepHelper("configHook",
                   IF fails \/ ctxCancelled THEN Failed("configHook", <<>>)
                   ELSE Done(<<"configHook">>))

StepInstall ==
    \E failAt \in 0..8 :
        LET r == GrubInstall(esp, trans.ID, d.hasESP, failAt)
        IN /\ Returned("Install", r.err, <<>>)
           /\ esp' = r.esp
           /\ UNCHANGED <<trans, csVars, snapVars>>

StepCommit ==
    \E fails \in BOOLEAN :
        /\ Returned("Commit", External("Commit", fails), <<>>)
        /\ IF fails THEN UNCHANGED <<trans, snapVars>> ELSE TxCommit
        /\ UNCHANGED <<csVars, esp>>

\* return: defer func() { err = cleanup.Cleanup(err) }()
\* The only job the stack can hold is the Rollback pushed after Start.
UpgradeReturn ==
    /\ pc = "return"
    /\ pc' = "done"
    /\ LET r == CleanupRun(jobs, count, upErr)
           at == SubSeq(jobs, 1, count)
           rolled == [i \in 1..Len(r.ran) |->
                        [step |-> "Rollback",
                         ok |-> ~(CHOOSE j \in {at[k] : k \in 1..Len(at)} :
                                     j.task = r.ran[i]).fails]]
       IN /\ count' = r.count
          /\ csAt' = at
          /\ csIn' = upErr
          /\ csRet' = r.err
          /\ visited' = r.visited
          /\ ran' = r.ran
          /\ upErr' = r.err
          /\ calls' = calls \o rolled
          /\ IF r.ran = <<>>
             THEN UNCHANGED <<trans, snapVars>>
             ELSE TxRollback(~rolled[1].ok)
    /\ cleanups' = cleanups + 1
    /\ csOp' = "Cleanup"
    /\ UNCHANGED <<jobs, nextTask, d, upRuns, ctxCancelled, effects, hVars, pkgVars, esp>>

\* The context of the Upgrader is cancelled while Upgrade runs, between two calls.
CancelUpgrade ==
    /\ pc \notin {"idle", "done"}
    /\ ~ctxCancelled
    /\ ctxCancelled' = TRUE
    /\ UNCHANGED <<trans, effects, csVars, hVars, pkgVars, snapVars, esp, upVars>>

Init ==
    /\ NewCleanStack
    /\ NoTransaction
    /\ NoHelperCall
    /\ FreshDisk
    /\ NoUpgrade
    /\ NoPackages
    /\ NoVolumes

Next ==
    \/ UpgradeCall
    \/ StepInit
    \/ StepStart
    \/ StepSyncImageContent
    \/ StepMerge
    \/ StepUpdateFstab
    \/ StepChrootedRelabel
    \/ StepWriteDeploymentFile
    \/ StepLock
    \/ StepUnpack
    \/ StepConfigHook
    \/ StepInstall
    \/ StepCommit
    \/ UpgradeReturn
    \/ CancelUpgrade

Spec == Init /\ [][Next]_vars

-----------------------------------------------------------------------------
(* Properties of Upgrade *)

Position(step) ==
    IF \E i \in 1..Len(calls) : calls[i].step = step
    THEN CHOOSE i \in 1..Len(calls) : calls[i].step = step
    ELSE 0

Called(step) == Position(step) # 0

Times(step) == Cardinality({i \in 1..Len(calls) : calls[i].step = step})

StartSucceeded == \E i \in 1..Len(calls) : calls[i].step = "Start" /\ calls[i].ok

StepFailed == \E i \in 1..Len(calls) : calls[i].step # "Rollback" /\ ~calls[i].ok

\* C1: Commit is invoked only when every earlier step returned no error; when a
\* step after a successful Start fails (Commit included), Rollback is invoked
\* exactly once, during the cleanup; when every step succeeds Rollback is never
\* invoked; when Init or Start fails neither Commit nor Rollback is invoked.
C1_CommitOnlyOnSuccessRollbackOnFailure ==
    /\ \A i \in 1..Len(calls) :
          calls[i].step = "Commit" => \A j \in 1..(i - 1) : calls[j].ok
    /\ Called("Rollback") => pc = "done"
    /\ pc = "done" =>
          /\ (StartSucceeded /\ StepFailed) => Times("Rollback") = 1
          /\ ~StepFailed => Times("Rollback") = 0
          /\ ~StartSucceeded => (Times("Commit") = 0 /\ Times("Rollback") = 0)

C1_Witness ==
    /\ pc = "done"
    /\ Called("Commit")
    /\ ~calls[Position("Commit")].ok
    /\ Times("Rollback") = 1

Range(seq) == {seq[i] : i \in 1..Len(seq)}

\* C2: after an Upgrade that ended in a rollback, whichever step failed, the
\* ESP holds no GRUB state of the failed transaction: its snapshot ID is not in
\* the entries of grubenv and no loader entry (active included) was written for it.
C2_RollbackLeavesNoGrubState ==
    (pc = "done" /\ Called("Rollback")) =>
        /\ trans.ID \notin Range(esp.entries)
        /\ \A x \in esp.loader : x.by # trans.ID

ClaimedOrder ==
    <<"Init", "Start", "SyncImageContent", "Merge", "UpdateFstab", "ChrootedRelabel",
      "WriteDeploymentFile", "Lock", "Unpack", "configHook", "Install", "Commit">>

ClaimedFor(dep) ==
    SelectSeq(ClaimedOrder,
              LAMBDA st : /\ st = "Unpack" => dep.overlay
                          /\ st = "configHook" => dep.cfgScript)

StepsMade == SelectSeq([i \in 1..Len(calls) |-> calls[i].step],
                       LAMBDA st : st # "Rollback")

\* C3: Upgrade makes its calls in the order Init, Start, SyncImageContent, Merge,
\* UpdateFstab, relabel, WriteDeploymentFile, Lock, overlay unpack (with an
\* overlay tree), config hook (with a script), bootloader Install, Commit, each
\* one only after every earlier one returned no error.
C3_UpgradeStepsInFixedOrder ==
    /\ Len(StepsMade) <= Len(ClaimedFor(d))
    /\ StepsMade = SubSeq(ClaimedFor(d), 1, Len(StepsMade))
    /\ \A i \in 1..Len(StepsMade) : \A j \in 1..(i - 1) : calls[j].ok

C3_Witness ==
    /\ pc = "done"
    /\ d.overlay
    /\ d.cfgScript
    /\ StepsMade = ClaimedOrder
    /\ \A i \in 1..Len(calls) : calls[i].ok

Precedes(a, b) == Called(b) => (Called(a) /\ Position(a) < Position(b))

MutationSteps ==
    {"SyncImageContent", "Merge", "UpdateFstab", "ChrootedRelabel",
     "WriteDeploymentFile", "Unpack", "configHook"}

\* C4: the overlay tree and the configuration hook are applied before the
\* relabel, before the deployment record is written and before the snapshot is
\* locked; the lock is the last step that changes the snapshot before Commit.
C4_OverlayAndHookBeforeRelabelAndLock ==
    /\ d.overlay =>
          /\ Precedes("Unpack", "ChrootedRelabel")
          /\ Precedes("Unpack", "WriteDeploymentFile")
          /\ Precedes("Unpack", "Lock")
    /\ d.cfgScript =>
          /\ Precedes("configHook", "ChrootedRelabel")
          /\ Precedes("configHook", "WriteDeploymentFile")
          /\ Precedes("configHook", "Lock")
    /\ Called("Commit") =>
          \A m \in MutationSteps : Called(m) => Position(m) < Position("Lock")

-----------------------------------------------------------------------------
(* The clean stack driven by an arbitrary caller *)

IncomingErrors == {Nil, Err("incoming", 0)}

InitCleanStack ==
    /\ NewCleanStack
    /\ NoTransaction
    /\ NoHelperCall
    /\ FreshDisk
    /\ NoUpgrade
    /\ NoPackages
    /\ NoVolumes

PushAs(jobType, fails, op) ==
    /\ nextTask < MaxJobs
    /\ LET r == PushJob(jobs, count, Job(nextTask + 1, jobType, fails))
       IN /\ jobs' = r.jobs
          /\ count' = r.count
    /\ nextTask' = nextTask + 1
    /\ csOp' = op
    /\ UNCHANGED <<csAt, csIn, csRet, visited, ran, cleanups>>
    /\ UNCHANGED <<txVars, hVars, pkgVars, snapVars, esp, upVars>>

Push == \E fails \in BOOLEAN : PushAs(always, fails, "Push")

PushErrorOnly == \E fails \in BOOLEAN : PushAs(errorOnly, fails, "PushErrorOnly")

PushSuccessOnly == \E fails \in BOOLEAN : PushAs(successOnly, fails, "PushSuccessOnly")

Pop ==
    /\ IF count = 0
       THEN UNCHANGED count
       ELSE count' = PopJob(jobs, count).count
    /\ csOp' = "Pop"
    /\ UNCHANGED <<jobs, nextTask, csAt, csIn, csRet, visited, ran, cleanups>>
    /\ UNCHANGED <<txVars, hVars, pkgVars, snapVars, esp, upVars>>

Cleanup ==
    /\ cleanups < MaxCleanups
    /\ \E err \in IncomingErrors :
          LET r == CleanupRun(jobs, count, err)
          IN /\ count' = r.count
             /\ csAt' = SubSeq(jobs, 1, count)
             /\ csIn' = err
             /\ csRet' = r.err
             /\ visited' = r.visited
             /\ ran' = r.ran
    /\ cleanups' = cleanups + 1
    /\ csOp' = "Cleanup"
    /\ UNCHANGED <<jobs, nextTask>>
    /\ UNCHANGED <<txVars, hVars, pkgVars, snapVars, esp, upVars>>

NextCleanStack ==
    \/ Push
    \/ PushErrorOnly
    \/ PushSuccessOnly
    \/ Pop
    \/ Cleanup

SpecCleanStack == InitCleanStack /\ [][NextCleanStack]_vars

-----------------------------------------------------------------------------
(* Properties of the clean stack *)

TaskIds(js) == [i \in 1..Len(js) |-> js[i].task]

Occurrences(log, id) == Cardinality({i \in 1..Len(log) : log[i] = id})

TypesOf(js) == {js[i].jobType : i \in 1..Len(js)}

\* The job of the stack the last Cleanup was entered with that holds task id.
JobAt(id) == CHOOSE j \in {csAt[i] : i \in 1..Len(csAt)} : j.task = id

\* The tasks the last Cleanup ran and that returned an error, in run order.
FailedRan == SelectSeq(ran, LAMBDA id : JobAt(id).fails)

\* C5: Cleanup called with a non-nil error runs every job pushed with Push or
\* PushErrorOnly exactly once and runs no job pushed with PushSuccessOnly.
C5_ErrorCleanupRunsAlwaysAndErrorOnly ==
    (csOp = "Cleanup" /\ csIn # Nil) =>
        \A i \in 1..Len(csAt) :
            /\ csAt[i].jobType \in {always, errorOnly} => Occurrences(ran, csAt[i].task) = 1
            /\ csAt[i].jobType = successOnly => Occurrences(ran, csAt[i].task) = 0

C5_Witness ==
    /\ csOp = "Cleanup"
    /\ csIn # Nil
    /\ TypesOf(csAt) = JobTypes
    /\ Len(ran) = 2

\* C6: Cleanup called with a nil error runs every job pushed with Push or
\* PushSuccessOnly exactly once and no job pushed with PushErrorOnly, whatever
\* the mix of jobs and also when a clean-up task returns an error.
C6_NilCleanupRunsAlwaysAndSuccessOnly ==
    (csOp = "Cleanup" /\ csIn = Nil) =>
        \A i \in 1..Len(csAt) :
            /\ csAt[i].jobType \in {always, successOnly} => Occurrences(ran, csAt[i].task) = 1
            /\ csAt[i].jobType = errorOnly => Occurrences(ran, csAt[i].task) = 0

\* C7: Cleanup pops the stacked jobs one at a time in strict reverse push order,
\* whatever their types, and leaves the stack empty, so that a Cleanup that
\* directly follows a Cleanup visits and runs nothing.
C7_CleanupVisitsInReversePushOrder ==
    /\ [](csOp = "Cleanup" => /\ visited = Reverse(TaskIds(csAt))
                              /\ count = 0)
    /\ [][(csOp = "Cleanup" /\ csOp' = "Cleanup" /\ cleanups' = cleanups + 1)
             => (visited' = <<>> /\ ran' = <<>>)]_vars

C7_Witness ==
    /\ csOp = "Cleanup"
    /\ TypesOf(csAt) = JobTypes
    /\ Len(visited) = 3

-----------------------------------------------------------------------------
(* Grub.Install called again and again on one ESP *)

MaxInstalls == 4    \* Install calls in one behaviour
MaxSnapshotID == 4  \* snapshot IDs handed to Install

Idle ==
    /\ NewCleanStack
    /\ NoTransaction
    /\ NoHelperCall
    /\ NoUpgrade

InitGrub ==
    /\ Idle
    /\ FreshDisk
    /\ NoPackages
    /\ NoVolumes

InstallCall ==
    /\ grubCalls < MaxInstalls
    /\ grubCalls' = grubCalls + 1
    /\ \E snapshotID \in 1..MaxSnapshotID, hasESP \in BOOLEAN, failAt \in 0..8 :
          LET r == GrubInstall(esp, snapshotID, hasESP, failAt)
          IN /\ esp' = r.esp
             /\ installed' = IF r.err = Nil THEN Append(installed, snapshotID)
                             ELSE installed
             /\ grubLast' = [ran |-> TRUE, hasESP |-> hasESP, before |-> esp,
                              err |-> r.err, calls |-> r.calls]
    /\ UNCHANGED <<csVars, txVars, hVars, snapVars, upVars, chVars, mgVars,
                   instVars, volVars>>

NextGrub == InstallCall

SpecGrub == InitGrub /\ [][NextGrub]_vars

\* Every Install call so far returned nil, and each was for a snapshot newer
\* than the ones before.
InstalledOneAfterAnother ==
    /\ installed # <<>>
    /\ Len(installed) = grubCalls
    /\ \A i \in 1..(Len(installed) - 1) : installed[i] < installed[i + 1]

\* C11: after successful Install calls for snapshots installed one after
\* another, the entries of grubenv are active followed by the snapshot IDs,
\* the most recent first (after 1, 2, 3, 4: active 4 3 2 1).
C11_EntriesMostRecentFirst ==
    InstalledOneAfterAnother =>
        esp.entries = <<DefaultBootID>> \o Reverse(installed)

\* C29: Install on a deployment without a partition of role efi returns an
\* error and does nothing: it goes into none of its steps, and grubenv and
\* the loader entries stay as they were.
C29_NoESPNoAction ==
    (grubLast.ran /\ ~grubLast.hasESP) =>
        /\ grubLast.err # Nil
        /\ grubLast.calls = <<>>
        /\ esp = grubLast.before

\* Install without an ESP was called where earlier calls had set up grubenv.
C29_Witness ==
    /\ grubLast.ran
    /\ ~grubLast.hasESP
    /\ esp.exists
    /\ installed # <<>>

\* C34: after any sequence of Install calls on one ESP no snapshot ID is
\* listed more than once in the entries of grubenv, also when Install runs
\* again for a snapshot that is already listed.
C34_NoSnapshotListedTwice ==
    \A i, j \in 1..Len(esp.entries) :
        esp.entries[i] = esp.entries[j] => i = j

-----------------------------------------------------------------------------
(* A Chroot driven by an arbitrary caller *)

MaxChrootOps == 3   \* calls on the Chroot in one behaviour
MaxBusy == 2        \* positions of the active mounts whose unmount may fail

\* The paths a Chroot is created on: "/whatever", "/whatever/" and "whatever".
ChrootPaths == {<<"", "whatever">>, <<"", "whatever", "">>, <<"whatever">>}

\* The maps SetExtraMounts is called with, outside path -> path in the chroot:
\* none, one, two, and two that name the same path in the chroot.
ExtraMountMaps ==
    {[k \in {} |-> <<>>],
     KeyOrder[1] :> <<"", "x">>,
     (KeyOrder[1] :> <<"", "x">>) @@ (KeyOrder[2] :> <<"", "y">>),
     (KeyOrder[1] :> <<"", "x">>) @@ (KeyOrder[2] :> <<"", "x">>)}

InitChroot ==
    /\ Idle
    /\ FreshDisk
    /\ installed = <<>>
    /\ grubCalls = 0
    /\ grubLast = NoOutcome
    /\ chroot \in {NewChroot(path) : path \in ChrootPaths}
    /\ mounted = <<>>
    /\ chLast = NoChrootCall
    /\ chOps = 0
    /\ mgDst = <<>>
    /\ mgSrc = <<>>
    /\ mgOut = NoOutcome
    /\ NoInstall
    /\ NoVolumes

\* A call on the Chroot returns r.
ChrootCall(op, r) ==
    /\ chOps < MaxChrootOps
    /\ chOps' = chOps + 1
    /\ chLast' = [op |-> op, at |-> chroot.activeMounts, err |-> r.err,
                  log |-> r.log]
    /\ chroot' = r.c
    /\ mounted' = Replay(mounted, r.log)
    /\ UNCHANGED <<csVars, txVars, hVars, snapVars, esp, upVars, grubVars, mgVars,
                   instVars, volVars>>

ChrootSetExtraMounts ==
    \E extraMounts \in ExtraMountMaps :
        ChrootCall("SetExtraMounts", Ran(Nil, SetExtraMounts(chroot, extraMounts), <<>>))

ChrootPrepare ==
    \E failAt \in 0..(2 * Len(bindMounts(chroot))) :
        \E failing \in IF failAt = 0 THEN {{}} ELSE SUBSET (1..MaxBusy) :
            ChrootCall("Prepare", Prepare(chroot, failAt, failing))

ChrootClose ==
    \E failing \in SUBSET (1..MaxBusy) :
        ChrootCall("Close", Close(chroot, failing))

\* The inputs are drawn only where the call they decide is reached.
ChrootRunCallback ==
    \E failAt \in {"none", "Getwd", "OpenFile", "Prepare", "Chdir", "Chroot",
                   "callback"} :
        /\ failAt = "Prepare" => Len(chroot.activeMounts) = 0
        /\ \E prepareFailAt \in IF failAt = "Prepare"
                                THEN 1..(2 * Len(bindMounts(chroot)))
                                ELSE {0},
              restore \in IF failAt \in {"none", "callback"}
                          THEN {"none", "Fchdir", "Chroot"}
                          ELSE {"none"},
              failing \in IF failAt \notin {"Getwd", "OpenFile"}
                             /\ Len(chroot.activeMounts) = 0
                          THEN SUBSET (1..MaxBusy)
                          ELSE {{}},
              chdirFails \in IF failAt = "Getwd" THEN {FALSE} ELSE BOOLEAN :
               ChrootCall("RunCallback",
                          RunCallback(chroot,
                                      [failAt |-> failAt,
                                       prepareFailAt |-> prepareFailAt,
                                       restore |-> restore, failing |-> failing,
                                       chdirFails |-> chdirFails]))

NextChroot ==
    \/ ChrootSetExtraMounts
    \/ ChrootPrepare
    \/ ChrootClose
    \/ ChrootRunCallback

SpecChroot == InitChroot /\ [][NextChroot]_vars

-----------------------------------------------------------------------------
(* Properties of the Chroot *)

\* The arguments of the calls of log that satisfy Test, in order.
ArgsOf(log, Test(_)) ==
    LET sel == SelectSeq(log, Test)
    IN [i \in 1..Len(sel) |-> sel[i].arg]

Mounted(log) == ArgsOf(log, LAMBDA e : e.call = "Mount" /\ e.ok)

UnmountsTried(log) == ArgsOf(log, LAMBDA e : e.call = "Unmount")

UnmountsFailed(log) == ArgsOf(log, LAMBDA e : e.call = "Unmount" /\ ~e.ok)

\* The positions of the calls named call in log.
IndicesOf(log, call) == {i \in 1..Len(log) : log[i].call = call}

\* The last call was a Prepare that went on to mount and failed there.
PrepareFailedMounting ==
    /\ chLast.op = "Prepare"
    /\ chLast.at = <<>>
    /\ chLast.err # Nil

\* C12 as claimed: after Prepare followed by Close the chroot has no active
\* mounts, and after a Prepare that returns an error it has no active mounts.
C12_NoActiveMountsAfterCloseOrFailedPrepare ==
    /\ (chLast.op = "Close" /\ chLast.at # <<>>) => chroot.activeMounts = <<>>
    /\ (chLast.op = "Prepare" /\ chLast.err # Nil) => chroot.activeMounts = <<>>

\* C12 as amended: after a Close that returns nil the chroot has no active
\* mounts and nothing is left mounted; after a Prepare that failed while
\* creating or mounting a bind, the same holds when each unmount of its
\* clean-up succeeded, and otherwise exactly the mount points whose unmount
\* failed stay active and mounted.
C12_NoActiveMountsUnlessUnmountFails ==
    /\ (chLast.op = "Close" /\ chLast.err = Nil) =>
          /\ chroot.activeMounts = <<>>
          /\ mounted = <<>>
    /\ PrepareFailedMounting =>
          /\ UnmountsTried(chLast.log) = Reverse(Mounted(chLast.log))
          /\ chroot.activeMounts = UnmountsFailed(chLast.log)
          /\ mounted = Reverse(UnmountsFailed(chLast.log))
          /\ UnmountsFailed(chLast.log) = <<>> => chroot.activeMounts = <<>>

\* A Prepare failed after it had mounted something, and unmounted all of it.
C12_Witness ==
    /\ PrepareFailedMounting
    /\ Mounted(chLast.log) # <<>>
    /\ UnmountsFailed(chLast.log) = <<>>
    /\ chroot.activeMounts = <<>>

\* C13: when unmounts fail during Close, the error lists exactly the mount
\* points whose unmount failed and the active mounts afterwards are exactly
\* those; Close tries each active mount once, so a later Close retries only
\* the ones that were kept.
C13_CloseKeepsExactlyTheFailedMounts ==
    chLast.op = "Close" =>
        /\ UnmountsTried(chLast.log) = Reverse(chLast.at)
        /\ UnmountsFailed(chLast.log) # <<>> =>
              /\ chLast.err = UnmountFailures(UnmountsFailed(chLast.log))
              /\ chroot.activeMounts = UnmountsFailed(chLast.log)

\* A Close in which one unmount failed and another succeeded.
C13_Witness ==
    /\ chLast.op = "Close"
    /\ UnmountsFailed(chLast.log) # <<>>
    /\ Len(UnmountsFailed(chLast.log)) < Len(UnmountsTried(chLast.log))

\* The last call was a RunCallback that prepared the binds itself and whose
\* callback returned an error.
CallbackFailedInOwnChroot ==
    /\ chLast.op = "RunCallback"
    /\ chLast.at = <<>>
    /\ \E i \in 1..Len(chLast.log) : chLast.log[i] = Ev("callback", <<>>, FALSE)

\* sync runs once, before the first unmount, and the binds are unmounted in
\* reverse order of mounting.
SyncThenUnmountInReverse(log) ==
    /\ Cardinality(IndicesOf(log, "sync")) = 1
    /\ \A i \in IndicesOf(log, "sync"), j \in IndicesOf(log, "Unmount") : i < j
    /\ UnmountsTried(log) = Reverse(Mounted(log))

\* C14 as claimed: when RunCallback prepared the binds itself and the callback
\* returns an error, sync is invoked once and before the first unmount, all
\* binds are unmounted in reverse order of mounting, the returned error
\* contains the error of the callback, and no active mounts remain.
C14_FailedCallbackTearsDownEverything ==
    CallbackFailedInOwnChroot =>
        /\ SyncThenUnmountInReverse(chLast.log)
        /\ UnmountsFailed(chLast.log) = <<>>
        /\ Contains(chLast.err, Err("callback", 0))
        /\ chroot.activeMounts = <<>>

\* C14 as amended: sync is invoked once and before the first unmount, the
\* unmount of every bind is attempted in reverse order of mounting, the
\* returned error contains the error of the callback, and the active mounts
\* that remain are exactly those whose unmount failed: none when every
\* unmount succeeded.
C14_FailedCallbackTearsDownWhatUnmounts ==
    CallbackFailedInOwnChroot =>
        /\ SyncThenUnmountInReverse(chLast.log)
        /\ Contains(chLast.err, Err("callback", 0))
        /\ chroot.activeMounts = UnmountsFailed(chLast.log)
        /\ mounted = Reverse(UnmountsFailed(chLast.log))

\* The callback failed in a chroot RunCallback had prepared, and every bind
\* was unmounted.
C14_Witness ==
    /\ CallbackFailedInOwnChroot
    /\ Mounted(chLast.log) # <<>>
    /\ UnmountsFailed(chLast.log) = <<>>
    /\ chroot.activeMounts = <<>>

\* C15: a Prepare issued while the chroot has active mounts is rejected with
\* an error, makes no call on the system and leaves the active mounts as they
\* were; a Prepare that follows a successful Close is not rejected.
C15_PrepareRejectedWhileActive ==
    /\ [](chLast.op = "Prepare" /\ chLast.at # <<>> =>
            /\ chLast.err = AlreadyActive
            /\ chLast.log = <<>>
            /\ chroot.activeMounts = chLast.at)
    /\ [][(chLast.op = "Close" /\ chLast.err = Nil /\ chLast'.op = "Prepare") =>
            /\ chLast'.err # AlreadyActive
            /\ chLast'.log # <<>>]_vars

\* A Prepare was issued while the chroot had active mounts.
C15_Witness ==
    /\ chLast.op = "Prepare"
    /\ chLast.at # <<>>
    /\ chLast.err # Nil

\* The positions of the calls of log that are one of evs.
Where(log, evs) == {i \in 1..Len(log) : log[i] \in evs}

\* The chroot into the target, and whether it succeeded.
Entered(ok) == {Ev("Chroot", chroot.path, ok)}

\* C31: in RunCallback, once the chroot into the target succeeded, the return
\* to the old root is attempted exactly once, after the callback returned and
\* before any unmount: the change to the saved root descriptor and, when that
\* succeeded, chroot(".") right after it, whether the callback failed or not;
\* and the callback runs only after Prepare (when RunCallback called it),
\* chdir and chroot succeeded.
C31_ReturnToOldRootOnceAfterCallback ==
    chLast.op = "RunCallback" =>
        LET log == chLast.log
            callback == IndicesOf(log, "callback")
            fchdir == IndicesOf(log, "oldRootF.Chdir")
            back == Where(log, {Ev("Chroot", <<".">>, ok) : ok \in BOOLEAN})
        IN /\ Where(log, Entered(TRUE)) # {} =>
                 /\ Cardinality(callback) = 1
                 /\ Cardinality(fchdir) = 1
                 /\ \A i \in fchdir :
                        /\ \A j \in callback : j < i
                        /\ \A j \in IndicesOf(log, "Unmount") : i < j
                        /\ back = IF log[i].ok THEN {i + 1} ELSE {}
           /\ callback # {} =>
                 /\ \A j \in callback :
                        /\ \E i \in Where(log, Entered(TRUE)) : i < j
                        /\ \E i \in Where(log, {Ev("Chdir", chroot.path, TRUE)}) :
                               i < j
                 /\ \A i \in 1..Len(log) :
                        log[i].call \in {"MkdirAll", "Mount", "Chdir", "Chroot"}
                            => (log[i].ok \/ i \in back)

\* A callback failed in a chroot RunCallback had prepared; the return to the
\* old root was made and the binds were unmounted after it.
C31_Witness ==
    /\ CallbackFailedInOwnChroot
    /\ Where(chLast.log, {Ev("Chroot", <<".">>, TRUE)}) # {}
    /\ IndicesOf(chLast.log, "Unmount") # {}

\* C32: when a Close left mounts active because their unmount failed, the
\* Close that follows it unmounts what the mounter still holds in reverse
\* order of mounting.
C32_RetriedCloseUnmountsInReverse ==
    [][(/\ chLast.op = "Close"
        /\ chLast.err # Nil
        /\ chOps' = chOps + 1
        /\ chLast'.op = "Close")
       => UnmountsTried(chLast'.log) = Reverse(mounted)]_vars

\* C33: RunCallback tears down only what it set up. Called with active
\* mounts, it makes no directory, mounts and unmounts nothing and leaves the
\* active mounts as they were; called without, it closes what it mounted on
\* every path: sync once, then the unmount of every bind it mounted, in
\* reverse order, and only the binds whose unmount failed stay active.
C33_RunCallbackTearsDownOnlyItsOwn ==
    chLast.op = "RunCallback" =>
        IF chLast.at # <<>>
        THEN /\ \A i \in 1..Len(chLast.log) :
                    chLast.log[i].call \notin {"MkdirAll", "Mount", "sync",
                                               "Unmount"}
             /\ chroot.activeMounts = chLast.at
        ELSE /\ Mounted(chLast.log) # <<>> =>
                    SyncThenUnmountInReverse(chLast.log)
             /\ chroot.activeMounts = UnmountsFailed(chLast.log)
             /\ mounted = Reverse(UnmountsFailed(chLast.log))

\* RunCallback ran its callback in a chroot the caller had prepared.
C33_PreparedByCaller ==
    /\ chLast.op = "RunCallback"
    /\ chLast.at # <<>>
    /\ IndicesOf(chLast.log, "callback") # {}

-----------------------------------------------------------------------------
(* The merge of two partition lists by label, on lists of every shape *)

MaxDst == 2     \* entries of the destination list
MaxSrc == 2     \* entries of the source list

SeqsUpTo(S, n) == UNION {[1..k -> S] : k \in 0..n}

\* Destination partitions: nil, unlabeled or labeled, of size 1G and role 1.
DstPartitions ==
    {NilPtr} \cup {Partition(l, 1, 1) : l \in {""} \cup Labels}

\* Source partitions: nil, unlabeled or labeled, setting the size (4G or 2G)
\* or the role (2) and leaving the other field zero.
SrcPartitions ==
    {NilPtr} \cup {Partition(l, f[1], f[2]) :
                     l \in {"", "SYSTEM", "NEW"},
                     f \in {<<4, 0>>, <<2, 0>>, <<0, 2>>}}

\* The orders in which the iteration over a map may visit the labels.
Orders ==
    {o \in [1..Cardinality(Labels) -> Labels] :
        \A i, j \in 1..Cardinality(Labels) : o[i] = o[j] => i = j}

InitMergeByKey ==
    /\ Idle
    /\ FreshDisk
    /\ installed = <<>>
    /\ grubCalls = 0
    /\ grubLast = NoOutcome
    /\ chroot = NewChroot(<<"", "whatever">>)
    /\ mounted = <<>>
    /\ chLast = NoChrootCall
    /\ chOps = 0
    /\ mgDst \in SeqsUpTo(DstPartitions, MaxDst)
    /\ mgSrc \in SeqsUpTo(SrcPartitions, MaxSrc)
    /\ mgOut = NoOutcome
    /\ NoInstall
    /\ NoVolumes

\* final, err = mergePtrSliceByKey(destSlice, srcSlice, t, key)
MergePartitions ==
    /\ ~mgOut.ran
    /\ \E order \in Orders :
          LET r == mergePtrSliceByKey(mgDst, mgSrc, order)
          IN mgOut' = [ran |-> TRUE, panic |-> r.panic, err |-> r.err,
                       final |-> r.final]
    /\ UNCHANGED <<mgDst, mgSrc>>
    /\ UNCHANGED <<csVars, txVars, hVars, snapVars, esp, upVars, grubVars, chVars,
                   instVars, volVars>>

NextMergeByKey == MergePartitions

SpecMergeByKey == InitMergeByKey /\ [][NextMergeByKey]_vars

\* The entries of a list that are not nil, in order.
NonNil(slice) == SelectSeq(slice, LAMBDA e : e # NilPtr)

LabelsOf(slice) == [i \in 1..Len(slice) |-> slice[i].label]

\* The labels the non-nil entries of a list carry.
LabelSet(slice) == {NonNil(slice)[i].label : i \in 1..Len(NonNil(slice))}

\* The unlabeled entries of the source, in order.
Unlabeled(slice) == SelectSeq(NonNil(slice), LAMBDA e : e.label = "")

\* The labels of the source that no destination partition carries.
Unmatched == (LabelSet(mgSrc) \ {""}) \ LabelSet(mgDst)

\* The last entry of the source that carries label l.
LastOf(l) ==
    mgSrc[CHOOSE i \in 1..Len(mgSrc) :
            /\ key(mgSrc[i]) = l
            /\ \A j \in 1..Len(mgSrc) : key(mgSrc[j]) = l => j <= i]

EFI == Partition("EFI", 1, 1)

SourcesOf(l) == {i \in 1..Len(mgSrc) : mgSrc[i] # NilPtr /\ mgSrc[i].label = l}

\* The positions of the result that carry label l.
ResultsOf(l) == {i \in 1..Len(mgOut.final) : mgOut.final[i].label = l}

\* C18: when the source holds several partitions with the same label, only
\* the last of them takes part in the merge: it alone is merged into the
\* matching destination partition, or added once when no destination
\* partition has the label, and no field of an earlier duplicate reaches the
\* result.
C18_LastDuplicateWins ==
    mgOut.ran =>
        \A l \in Labels :
            Cardinality(SourcesOf(l)) >= 2 =>
                LET dest == NonNil(mgDst)
                    added == Len(mgOut.final) - Len(dest)
                    matching == {i \in 1..Len(dest) : dest[i].label = l}
                IN IF matching = {}
                   THEN /\ Cardinality(ResultsOf(l)) = 1
                        /\ \A i \in ResultsOf(l) : mgOut.final[i] = LastOf(l)
                   ELSE LET first == CHOOSE i \in matching :
                                        \A j \in matching : i <= j
                        IN /\ mgOut.final[added + first]
                                 = mergePartition(dest[first], LastOf(l))
                           /\ ResultsOf(l) = {added + i : i \in matching}
                           /\ \A i \in matching \ {first} :
                                 mgOut.final[added + i] = dest[i]

\* Two source partitions with one label and different fields were merged into
\* a destination partition with that label.
C18_Witness ==
    /\ mgOut.ran
    /\ \E l \in LabelSet(mgDst) \ {""} :
          \E i, j \in SourcesOf(l) :
              /\ i < j
              /\ mgSrc[i].size # 0
              /\ mgSrc[j].size = 0

\* C36: the merge by label is deterministic: whatever order the iteration
\* over the keyed sources takes, the merge of the same two lists gives the
\* same sequence, also when two or more labels of the source are absent
\* from the destination.
C36_MergeByLabelDeterministic ==
    mgOut.ran =>
        \A order \in Orders :
            mergePtrSliceByKey(mgDst, mgSrc, order).final = mgOut.final

\* The results the merge of dst and src can give.
MergesOf(dst, src) ==
    {mergePtrSliceByKey(dst, src, order).final : order \in Orders}

\* C39: nil entries of the source are a no-op for the merge by label: the
\* merge neither panics nor returns an error, its result is a result of the
\* merge with the source without its nil entries, it holds no nil element,
\* and every destination partition is still there, in order.
C39_NilSourcesAreNoOp ==
    mgOut.ran =>
        /\ ~mgOut.panic
        /\ mgOut.err = Nil
        /\ mgOut.final \in MergesOf(mgDst, NonNil(mgSrc))
        /\ MergesOf(mgDst, mgSrc) = MergesOf(mgDst, NonNil(mgSrc))
        /\ \A i \in 1..Len(mgOut.final) : mgOut.final[i] # NilPtr
        /\ LET added == Len(mgOut.final) - Len(NonNil(mgDst))
           IN /\ added >= 0
              /\ LabelsOf(SubSeq(mgOut.final, added + 1, Len(mgOut.final)))
                    = LabelsOf(NonNil(mgDst))

\* A source with a nil entry and a partition was merged into a destination
\* that holds a partition.
C39_Witness ==
    /\ mgOut.ran
    /\ \E i \in 1..Len(mgSrc) : mgSrc[i] = NilPtr
    /\ NonNil(mgSrc) # <<>>
    /\ NonNil(mgDst) # <<>>

-----------------------------------------------------------------------------
(* deployment.Merge on deployments of every shape *)

MaxDisks == 2   \* disks of a deployment

\* Destination disks: nil, or /dev/sda with no partition, with SYSTEM(1G), or
\* with a nil entry and SYSTEM(1G).
DstDisks ==
    {NilPtr} \cup {Disk("/dev/sda", ps) :
                     ps \in {<<>>, <<Partition("SYSTEM", 1, 1)>>,
                             <<NilPtr, Partition("SYSTEM", 1, 1)>>}}

\* Source disks: nil, or a disk that names a device or not, with no
\* partition, with SYSTEM(4G) or with NEW(2G).
SrcDisks ==
    {NilPtr} \cup {Disk(device, ps) :
                     device \in {"", "/dev/sdb"},
                     ps \in {<<>>, <<Partition("SYSTEM", 4, 0)>>,
                             <<Partition("NEW", 2, 0)>>}}

InitMerge ==
    /\ Idle
    /\ FreshDisk
    /\ installed = <<>>
    /\ grubCalls = 0
    /\ grubLast = NoOutcome
    /\ chroot = NewChroot(<<"", "whatever">>)
    /\ mounted = <<>>
    /\ chLast = NoChrootCall
    /\ chOps = 0
    /\ mgDst \in {Deployment(disks, cfgScript) :
                    disks \in SeqsUpTo(DstDisks, MaxDisks),
                    cfgScript \in {"", "old"}}
    /\ mgSrc \in {Deployment(disks, cfgScript) :
                    disks \in SeqsUpTo(SrcDisks, MaxDisks),
                    cfgScript \in {"", "new"}}
    /\ mgOut = NoOutcome
    /\ NoInstall
    /\ NoVolumes

\* deployment.Merge(dst, src)
MergeDeployments ==
    /\ ~mgOut.ran
    /\ \E order \in Orders :
          LET r == DeploymentMerge(mgDst, mgSrc, order)
          IN mgOut' = [ran |-> TRUE, panic |-> r.panic, err |-> r.err,
                       dst |-> r.dst, order |-> order]
    /\ UNCHANGED <<mgDst, mgSrc>>
    /\ UNCHANGED <<csVars, txVars, hVars, snapVars, esp, upVars, grubVars, chVars,
                   instVars, volVars>>

NextMerge == MergeDeployments

SpecMerge == InitMerge /\ [][NextMerge]_vars

\* What the merge by index makes of the disks from index i on: a nil src[i]
\* drops dst[i], a nil dst[i] is replaced by src[i], two disks are merged into
\* dst[i], and a dst[i] without a src[i] is kept.
RECURSIVE ByIndex(_, _, _)
ByIndex(dst, src, i) ==
    IF i > Len(dst) THEN <<>>
    ELSE (IF i > Len(src) THEN <<dst[i]>>
          ELSE IF src[i] = NilPtr THEN <<>>
          ELSE IF dst[i] = NilPtr THEN <<src[i]>>
          ELSE <<mergeDisk(dst[i], src[i], mgOut.order)>>)
         \o ByIndex(dst, src, i + 1)

\* C19: disks are merged by index: a nil src[i] drops dst[i], a nil dst[i] is
\* replaced by src[i], two non-nil entries are merged into dst[i], and every
\* src disk at an index >= len(dst) is appended.
C19_DisksMergedByIndex ==
    mgOut.ran =>
        /\ ~mgOut.panic
        /\ mgOut.dst.disks
              = ByIndex(mgDst.disks, mgSrc.disks, 1)
                \o NonNil(SubSeq(mgSrc.disks, Len(mgDst.disks) + 1,
                                 Len(mgSrc.disks)))

\* The position in the result of the disk merged at index i.
ResultIndex(i) ==
    Cardinality({j \in 1..i : mgSrc.disks[j] # NilPtr})

\* C20: merging an empty source leaves the destination unchanged:
\* Merge(dst, empty deployment) yields dst, and a source disk whose partition
\* list is empty leaves the partitions of the destination disk at that index
\* unchanged.
C20_EmptySourceChangesNothing ==
    mgOut.ran =>
        /\ mgSrc = Deployment(<<>>, "") =>
              /\ ~mgOut.panic
              /\ mgOut.dst = mgDst
        /\ \A i \in 1..Len(mgSrc.disks) :
              (/\ i <= Len(mgDst.disks)
               /\ mgSrc.disks[i] # NilPtr
               /\ mgDst.disks[i] # NilPtr
               /\ mgSrc.disks[i].partitions = <<>>)
              => /\ ~mgOut.panic
                 /\ mgOut.dst.disks[ResultIndex(i)].partitions
                       = mgDst.disks[i].partitions

\* C35: merging disks by index returns normally for every pair of disk
\* lists: when the source is not empty and shorter than the destination, the
\* merge does not panic and every destination disk at an index from
\* len(src) on is kept unchanged, at the end of the result.
C35_ShorterSourceKeepsTheRest ==
    mgOut.ran =>
        /\ ~mgOut.panic
        /\ (0 < Len(mgSrc.disks) /\ Len(mgSrc.disks) < Len(mgDst.disks)) =>
              LET rest == SubSeq(mgDst.disks, Len(mgSrc.disks) + 1,
                                 Len(mgDst.disks))
                  out == mgOut.dst.disks
              IN /\ Len(out) >= Len(rest)
                 /\ SubSeq(out, Len(out) - Len(rest) + 1, Len(out)) = rest

-----------------------------------------------------------------------------
(* Installer.Install on deployments of every shape *)

MaxParts == 3   \* partitions of the deployment handed to Install

PartitionKinds == {"efi", "system", "data"}

\* An ESP, a system partition with a snapshotted /etc and a plain /var, a
\* data partition mounted at /data with a snapshotted /srv, and a data
\* partition without a mount point with a plain /home.
PartitionOfKind(uuid, kind) ==
    CASE kind = "efi" -> RWPartition(uuid, "efi", <<"", "boot", "efi">>, <<>>)
      [] kind = "system" ->
            RWPartition(uuid, "system", <<"", "">>,
                        <<RWVolume(<<"", "etc">>, TRUE),
                          RWVolume(<<"", "var">>, FALSE)>>)
      [] kind = "srv" ->
            RWPartition(uuid, "data", <<"", "data">>,
                        <<RWVolume(<<"", "srv">>, TRUE)>>)
      [] OTHER -> RWPartition(uuid, "data", <<"">>,
                              <<RWVolume(<<"", "home">>, FALSE)>>)

\* d.Disks as the lists of partitions of one or two disks.
InstallDisks ==
    UNION {{LET parts == [k \in 1..n |-> PartitionOfKind(k, kinds[k])]
            IN IF cut = n THEN <<parts>>
               ELSE <<SubSeq(parts, 1, cut), SubSeq(parts, cut + 1, n)>>
            : kinds \in [1..n -> PartitionKinds], cut \in 0..n}
           : n \in 0..MaxParts}

InitInstall ==
    /\ Idle
    /\ FreshDisk
    /\ NoPackages
    /\ NoVolumes

\* err = Install(d): any one of its calls on the system may fail, and so may
\* up to two of the cleanup tasks.
CallInstall ==
    /\ ~inst.ran
    /\ \E disks \in InstallDisks :
          LET full == Install(disks, 0, {})
              tasks == {[call |-> e.call, mountPoint |-> e.arg[1]] :
                          e \in {full.log[k] : k \in 1..Len(full.log)}
                                  \cap [call : {"RemoveAll", "Unmount"},
                                        arg : {<<k>> : k \in 1..MaxParts},
                                        ok : BOOLEAN]}
          IN \E failAt \in 0..Len(full.log),
                failing \in {f \in SUBSET tasks : Cardinality(f) <= 2} :
                LET r == Install(disks, failAt, failing)
                IN inst' = [ran |-> TRUE, disks |-> disks, err |-> r.err,
                            body |-> r.body, log |-> r.log]
    /\ UNCHANGED <<csVars, txVars, hVars, snapVars, esp, upVars, grubVars,
                   chVars, mgVars, volVars>>

SpecInstall == InitInstall /\ [][CallInstall]_vars

\* The places of the log where call was made on the mount directory of arg.
At(call, arg) ==
    {k \in 1..Len(inst.log) : inst.log[k].call = call /\ inst.log[k].arg = arg}

\* The places of the log where a partition was mounted.
Mounts == {k \in 1..Len(inst.log) : inst.log[k].call = "Mount" /\ inst.log[k].ok}

\* The place where the partition mounted at place k was unmounted.
UnmountOf(k) == CHOOSE u \in At("Unmount", inst.log[k].arg) : TRUE

\* C21: every partition that Install mounted is unmounted exactly once before
\* Install returns, whether it returns an error or not, and the unmounts come
\* in the reverse of the order of the mounts.
C21_MountedPartitionsUnmountedOnceInReverse ==
    inst.ran =>
        /\ \A k \in Mounts :
              /\ Cardinality(At("Unmount", inst.log[k].arg)) = 1
              /\ UnmountOf(k) > k
        /\ \A k, l \in Mounts : k < l => UnmountOf(l) < UnmountOf(k)

\* Install failed after it had mounted two partitions.
C21_Witness ==
    /\ inst.ran
    /\ inst.body # Nil
    /\ Cardinality(Mounts) >= 2

\* C22: when Install ends with an error, its cleanup removes every temporary
\* mount directory that was created.
C22_FailedInstallRemovesMountDirectories ==
    (inst.ran /\ inst.err # Nil) =>
        \A k \in 1..Len(inst.log) :
            (inst.log[k].call = "TempDir" /\ inst.log[k].ok) =>
                \E r \in At("RemoveAll", inst.log[k].arg) : r > k

\* C30: a mount directory is removed only after the unmount of that same
\* directory has run and succeeded.
C30_RemovedOnlyAfterUnmounted ==
    inst.ran =>
        \A r \in 1..Len(inst.log) :
            inst.log[r].call = "RemoveAll" =>
                \E u \in At("Unmount", inst.log[r].arg) :
                    u < r /\ inst.log[u].ok

\* Install removed the mount directories of two partitions.
C30_Witness ==
    /\ inst.ran
    /\ Cardinality({r \in 1..Len(inst.log) : inst.log[r].call = "RemoveAll"}) >= 2

-----------------------------------------------------------------------------
(* The upgrade helper syncing the image and writing fstab, call after call *)

MaxVolParts == 2    \* partitions of the deployment the helper was made for
MaxVolCalls == 2    \* calls on the helper in one behaviour

\* sc.partitions: the partitions of Install, and a data partition mounted at
\* /data with a snapshotted /srv.
VolumeParts ==
    UNION {{[k \in 1..n |-> PartitionOfKind(k, kinds[k])] :
               kinds \in [1..n -> PartitionKinds \cup {"srv"}]}
           : n \in 0..MaxVolParts}

InitVolumes ==
    /\ Idle
    /\ FreshDisk
    /\ NoPackages
    /\ scParts \in VolumeParts
    /\ fstabFile = [exists |-> FALSE, lines |-> <<>>]
    /\ volLast = NoOutcome
    /\ volCalls = 0

\* A call on the helper for the started transaction id returns err.
VolumeCall(method, id, err, unpacked, excludes, deleteExcludes) ==
    /\ volCalls < MaxVolCalls
    /\ volCalls' = volCalls + 1
    /\ volLast' = [ran |-> TRUE, method |-> method, id |-> id, err |-> err,
                   before |-> fstabFile, unpacked |-> unpacked,
                   excludes |-> excludes, deleteExcludes |-> deleteExcludes]
    /\ UNCHANGED scParts
    /\ UNCHANGED <<csVars, txVars, hVars, snapVars, esp, upVars, grubVars,
                   chVars, mgVars, instVars>>

\* SyncImageContent(imgSrc, trans): what it hands to SynchedUnpack, unless
\* NewUnpacker failed.
VolSyncImageContent ==
    /\ \E id \in 1..MaxTransID, failAt \in 0..2 :
          VolumeCall("SyncImageContent", id,
                     SyncImageContent(started, FALSE, failAt).err, failAt # 1,
                     syncSnapshotExcludes(scParts, firstTransaction(id)),
                     syncSnapshotDeleteExcludes(scParts))
    /\ UNCHANGED fstabFile

\* UpdateFstab(trans)
VolUpdateFstab ==
    \E id \in 1..MaxTransID, failAt \in 0..1 :
        LET r == UpdateFstab(started, FALSE, fstabFile.exists, failAt)
        IN /\ VolumeCall("UpdateFstab", id, r.err, FALSE, <<>>, <<>>)
           /\ fstabFile' =
                IF r.err # Nil THEN fstabFile
                ELSE [exists |-> TRUE,
                      lines |-> IF fstabFile.exists
                                THEN fstabUpdateFstab(fstabFile.lines,
                                                      updateFstab(scParts, id))
                                ELSE createFstab(scParts, id)]

NextVolumes == VolSyncImageContent \/ VolUpdateFstab

SpecVolumes == InitVolumes /\ [][NextVolumes]_vars

\* The RW volumes of the deployment, and its partitions that are not the
\* system partition and have a mount point.
RWVolumesOf(parts) ==
    UNION {{parts[i].rwVolumes[j] : j \in 1..Len(parts[i].rwVolumes)} :
             i \in 1..Len(parts)}

MountedElsewhere(parts) ==
    {parts[i] : i \in {k \in 1..Len(parts) :
                         parts[k].role # "system" /\ parts[k].mountPoint # <<"">>}}

Synced == volLast.ran /\ volLast.method = "SyncImageContent" /\ volLast.unpacked

\* C25: the sync excludes always hold /.snapshots and <path>/.snapshots of
\* every snapshotted volume; they hold the mount point of a non-system
\* partition and the path of a non-snapshotted volume exactly when the
\* transaction is not the first one.
C25_SyncExcludesByTransaction ==
    Synced =>
        LET excludes == Range(volLast.excludes)
        IN /\ <<"", ".snapshots">> \in excludes
           /\ \A v \in RWVolumesOf(scParts) :
                 IF v.snapshotted
                 THEN v.path \o <<".snapshots">> \in excludes
                 ELSE v.path \in excludes <=> volLast.id # 1
           /\ \A p \in MountedElsewhere(scParts) :
                 p.mountPoint \in excludes <=> volLast.id # 1

\* An upgrade was synced into a deployment with a mounted non-system
\* partition, a snapshotted and a plain volume.
C25_Witness ==
    /\ Synced
    /\ volLast.id # 1
    /\ MountedElsewhere(scParts) # {}
    /\ {v.snapshotted : v \in RWVolumesOf(scParts)} = BOOLEAN

\* C26: whatever the transaction, the delete excludes hold /.snapshots, the
\* mount point of every non-system partition that has one, and the path of
\* every RW volume.
C26_DeleteExcludesAlways ==
    Synced =>
        LET excludes == Range(volLast.deleteExcludes)
        IN /\ <<"", ".snapshots">> \in excludes
           /\ \A v \in RWVolumesOf(scParts) : v.path \in excludes
           /\ \A p \in MountedElsewhere(scParts) : p.mountPoint \in excludes

\* The first transaction was synced into a deployment with a mounted
\* non-system partition, a snapshotted and a plain volume.
C26_Witness ==
    /\ Synced
    /\ volLast.id = 1
    /\ MountedElsewhere(scParts) # {}
    /\ {v.snapshotted : v \in RWVolumesOf(scParts)} = BOOLEAN

\* The subvol= options of the lines of fstab mounted at path.
SubvolsAt(path) ==
    UNION {{o \in Range(fstabFile.lines[k].options) : o[1] = "subvol="} :
             k \in {l \in 1..Len(fstabFile.lines) :
                      fstabFile.lines[l].mountPoint = path}}

\* C27: after a successful UpdateFstab for transaction n, the fstab line of
\* every snapshotted volume has subvol=@/.snapshots/n/snapshot/<path> and no
\* other subvolume, and the line of a plain volume subvol=@/<path>.
C27_FstabReferencesTheTransaction ==
    (volLast.ran /\ volLast.method = "UpdateFstab" /\ volLast.err = Nil) =>
        \A v \in RWVolumesOf(scParts) :
            SubvolsAt(v.path) =
                IF v.snapshotted
                THEN {<<"subvol=", "@", ".snapshots", ToString(volLast.id),
                        "snapshot">> \o Tail(v.path)}
                ELSE {<<"subvol=", "@">> \o Tail(v.path)}

\* UpdateFstab changed an fstab that existed, for snapshotted and plain volumes.
C27_Witness ==
    /\ volLast.ran
    /\ volLast.method = "UpdateFstab"
    /\ volLast.err = Nil
    /\ volLast.before.exists
    /\ volLast.before # fstabFile
    /\ {v.snapshotted : v \in RWVolumesOf(scParts)} = BOOLEAN

-----------------------------------------------------------------------------
(* Merge applying the custom changes of one snapshotted volume *)

MaxLines == 2   \* lines of the status file

\* The lines snapper status can report for files of the volume /etc: deleted,
\* created, content changed, extended attributes changed; and a line that is
\* no status line.
StatusLines ==
    [word : {<<"-", ".", ".", ".", ".", ".">>, <<"+", ".", ".", ".", ".", ".">>,
             <<"c", ".", ".", ".", ".", ".">>, <<".", ".", ".", ".", "x", ".">>,
             <<"x", ".", ".", ".", ".", ".">>},
     file : {<<"", "etc", "foo">>, <<"", "etc", "bar">>}]

\* err = Merge(trans) for a started upgrade transaction whose Merges hold
\* /etc: the status file has any lines, and any one call may fail.
MergeCustomChanges ==
    /\ ~volLast.ran
    /\ \E lines \in SeqsUpTo(StatusLines, MaxLines), closeFails \in BOOLEAN,
          removeFails \in BOOLEAN :
          \E failAt \in 0..(Len(lines) + 10) :
             LET rwVolPath == <<"", "etc">>
                 merge == [New |-> CleanJoin(<<"", ".snapshots", "5", "snapshot">>,
                                             rwVolPath),
                           Modified |-> <<"", "etc", ".snapshots", "3", "snapshot">>]
                 c == configureSnapper(IF failAt <= 4 THEN failAt ELSE 0)
                 r == mergeVolume(lines, rwVolPath, merge, failAt - 4,
                                  closeFails, removeFails)
             IN volLast' =
                    [ran |-> TRUE, method |-> "Merge", lines |-> lines,
                     rwVolPath |-> rwVolPath, merge |-> merge,
                     err |-> checkCancelled(FALSE,
                                 IF c.err # Nil
                                 THEN Errorf("configuring snapper", c.err)
                                 ELSE r.err),
                     log |-> IF c.err # Nil THEN <<>> ELSE r.log]
    /\ UNCHANGED <<scParts, fstabFile, volCalls>>
    /\ UNCHANGED <<csVars, txVars, hVars, snapVars, esp, upVars, grubVars,
                   chVars, mgVars, instVars>>

SpecCustomChanges == InitInstall /\ [][MergeCustomChanges]_vars

Merged == volLast.ran /\ volLast.method = "Merge"

\* What Merge handed to call, in order, where the call succeeded.
Handed(call) ==
    LET done == SelectSeq(volLast.log, LAMBDA e : e.call = call /\ e.ok)
    IN [k \in 1..Len(done) |-> done[k].arg]

\* The file of a status line, relative to the volume.
InVolume(line) == <<"">> \o SubSeq(line.file, Len(volLast.rwVolPath) + 1,
                                    Len(line.file))

IsStatusLine(line) == line.word[1] \in {"-", "+", "c", "t", "."}

XattrOnly(line) == line.word = <<".", ".", ".", ".", "x", ".">>

\* C23: a status line that reports only an extended-attribute change is
\* skipped: after a Merge without error, what was deleted and what was put on
\* the sync list is what the other status lines ask for.
C23_XattrOnlyLinesSkipped ==
    (Merged /\ volLast.err = Nil) =>
        LET asked == SelectSeq(volLast.lines,
                               LAMBDA l : IsStatusLine(l) /\ ~XattrOnly(l))
            deleted == SelectSeq(asked, LAMBDA l : l.word[1] = "-")
            kept == SelectSeq(asked, LAMBDA l : l.word[1] # "-")
        IN /\ Len(Handed("RemoveAll")) = Len(deleted)
           /\ Handed("Fprintln") = [k \in 1..Len(kept) |-> InVolume(kept[k])]

\* C24: every customization wins: after a Merge without error, each file
\* whose status line starts with "-" was deleted under the new volume, and
\* the file of every other line that is not skipped is on the sync list,
\* without the volume prefix, and was synced from the modified volume.
C24_CustomizationsWin ==
    (Merged /\ volLast.err = Nil) =>
        \A k \in 1..Len(volLast.lines) :
            LET line == volLast.lines[k]
            IN (IsStatusLine(line) /\ ~XattrOnly(line)) =>
                IF line.word[1] = "-"
                THEN volLast.merge.New \o Tail(InVolume(line))
                        \in Range(Handed("RemoveAll"))
                ELSE /\ InVolume(line) \in Range(Handed("Fprintln"))
                     /\ Handed("SyncData") = <<volLast.merge.Modified>>

\* C28: when deleting a file, writing the sync list or the sync of the custom
\* changes fails, the error Merge returns contains the cause.
C28_MergeErrorKeepsCause ==
    Merged =>
        \A k \in 1..Len(volLast.log) :
            LET e == volLast.log[k]
            IN (e.call \in {"RemoveAll", "Fprintln", "SyncData"} /\ ~e.ok) =>
                Contains(volLast.err, Err(e.call, e.arg))

\* Where rsync puts a file of the sync list of the volume: the entry of the
\* list, taken as relative to the new volume.
SyncedTo(file) ==
    CleanJoin(volLast.merge.New, TrimPrefix(file, volLast.rwVolPath))

\* C37: a change reported for the path P inside the volume V is applied at
\* the same place of the new volume for both kinds of change: the files
\* Merge removes are, in order, those of the lines starting with "-", each
\* at <new volume>/(P without the prefix V), where a file modified at P is
\* synced to.
C37_DeletedWhereModifiedIsSynced ==
    Merged =>
        LET removed == SelectSeq(volLast.log, LAMBDA e : e.call = "RemoveAll")
            deleted == SelectSeq(volLast.lines,
                                 LAMBDA l : IsStatusLine(l) /\ l.word[1] = "-")
        IN /\ Len(removed) <= Len(deleted)
           /\ \A k \in 1..Len(removed) :
                 removed[k].arg = SyncedTo(deleted[k].file)

-----------------------------------------------------------------------------
(* Merge on the snapshotted volumes of a deployment *)

MaxMergeVols == 2   \* snapshotted volumes of the deployment

VolumePaths == {<<"", "etc">>, <<"", "home">>, <<"", "srv">>}

\* sc.partitions.GetSnapshottedVolumes(): volumes of different paths.
SnapshottedVolumes ==
    {vols \in SeqsUpTo(VolumePaths, MaxMergeVols) :
        \A i, j \in 1..Len(vols) : vols[i] = vols[j] => i = j}

\* The entry of trans.Merges for a volume of an upgrade, before Merge: the
\* stock snapshot of the volume in the old system and the volume as the user
\* has it now; New is not set yet.
MergeFor(vol) ==
    [Old |-> vol \o <<".snapshots", "1", "snapshot">>,
     Modified |-> vol \o <<".snapshots", "3", "snapshot">>,
     New |-> <<"">>]

\* What snapper reports for a volume: the file foo of the volume deleted or
\* changed, or nothing.
StatusOf(vol) ==
    SeqsUpTo([word : {<<"-", ".", ".", ".", ".", ".">>,
                      <<"c", ".", ".", ".", ".", ".">>},
              file : {vol \o <<"foo">>}], 1)

\* err = Merge(trans) for a started transaction; any subset of the volumes
\* has an entry in trans.Merges (none on the first transaction), and any one
\* call may fail.
MergeVolumes ==
    /\ ~volLast.ran
    /\ \E vols \in SnapshottedVolumes, closeFails \in BOOLEAN :
          \E with \in SUBSET Range(vols),
             linesOf \in [Range(vols) -> UNION {StatusOf(v) : v \in VolumePaths}] :
             /\ \A v \in Range(vols) : linesOf[v] \in StatusOf(v)
             /\ LET merges == [v \in with |-> MergeFor(v)]
                    transPath == <<"", ".snapshots", "5", "snapshot">>
                    full == MergeSnapshotted(vols, merges, transPath, linesOf,
                                             0, FALSE)
                IN \E failAt \in 0..Len(full.log) :
                      LET r == MergeSnapshotted(vols, merges, transPath,
                                                linesOf, failAt, closeFails)
                      IN volLast' =
                            [ran |-> TRUE, method |-> "MergeSnapshotted",
                             vols |-> vols, with |-> with,
                             transPath |-> transPath,
                             err |-> checkCancelled(FALSE, r.err),
                             log |-> r.log, merges |-> r.merges]
    /\ UNCHANGED <<scParts, fstabFile, volCalls>>
    /\ UNCHANGED <<csVars, txVars, hVars, snapVars, esp, upVars, grubVars,
                   chVars, mgVars, instVars>>

SpecMergeVolumes == InitInstall /\ [][MergeVolumes]_vars

MergedVolumes == volLast.ran /\ volLast.method = "MergeSnapshotted"

\* The positions of the log at which call was made with arg.
CallsOf(call, arg) ==
    {k \in 1..Len(volLast.log) :
        volLast.log[k].call = call /\ volLast.log[k].arg = arg}

\* path lies under dir.
Under(path, dir) ==
    Len(path) >= Len(dir) /\ SubSeq(path, 1, Len(dir)) = dir

\* C38: for a snapshotted volume without an entry in the merges of the
\* transaction, a Merge that returns nil has created the snapper
\* configuration and the stock snapshot of the volume, and no Merge makes a
\* status directory, runs a status diff, deletes a file or runs rsync for
\* it; with no entry at all (the first transaction) Merge only configures.
C38_NoMergeEntryOnlyConfigured ==
    MergedVolumes =>
        /\ \A v \in Range(volLast.vols) \ volLast.with :
              /\ volLast.err = Nil =>
                    /\ \E k \in CallsOf("CreateConfig", v) : volLast.log[k].ok
                    /\ \E k \in CallsOf("CreateSnapshot", v) : volLast.log[k].ok
              /\ CallsOf("Status", v) = {}
              /\ \A k \in 1..Len(volLast.log) :
                    LET e == volLast.log[k]
                    IN /\ e.call \in {"TempDir", "RemoveAll"} =>
                             /\ e.arg # <<"snapStatus">> \o Tail(v)
                             /\ ~Under(e.arg, CleanJoin(volLast.transPath, v))
                       /\ e.call = "SyncData" => e.arg # MergeFor(v).Modified
        /\ volLast.with = {} =>
              \A k \in 1..Len(volLast.log) :
                  volLast.log[k].call \in {"ConfigureRoot", "MkdirAll", "Mount",
                                           "CreateConfig", "CreateSnapshot"}

\* A Merge returned nil on two volumes of which one had a merge entry, and
\* synced that one.
C38_Witness ==
    /\ MergedVolumes
    /\ volLast.err = Nil
    /\ volLast.with # {}
    /\ Range(volLast.vols) \ volLast.with # {}
    /\ \E k \in 1..Len(volLast.log) : volLast.log[k].call = "SyncData"

\* C40: when Merge returns, with or without an error, the removal of every
\* temporary status directory it made has been called, whatever the number
\* of snapshotted volumes with a merge entry.
C40_StatusDirectoriesRemoved ==
    MergedVolumes =>
        \A k \in 1..Len(volLast.log) :
            (volLast.log[k].call = "TempDir" /\ volLast.log[k].ok) =>
                \E j \in CallsOf("RemoveAll", volLast.log[k].arg) : k < j

====
